---------------------------- MODULE Spec2Model ----------------------------
(***************************************************************************)
(* A model of the labchain node: the script interpreter, transactions,     *)
(* blocks, the block chain with its set of unspent coins, and the chain    *)
(* builder.                                                                *)
(*                                                                         *)
(* Values.  A hash is modelled as the tuple of the values that were fed to *)
(* the hasher, tagged with what was hashed ("tx", "blk", "mk"): two hashes *)
(* are equal exactly when the hashed contents are equal (no collisions).   *)
(* A script is a sequence of tokens (the result of str.split()); a token   *)
(* is a tagged tuple:                                                      *)
(*    <<"op", name>>     one of the four opcodes                           *)
(*    <<"key", k>>       the hex serialisation of the public key of k      *)
(*    <<"sig", k, h>>    the hex signature of hash h made with the private *)
(*                       key of k                                          *)
(*    <<"num", n>>       the decimal string of the number n                *)
(*    <<"sha", t>>       the hex SHA-256 digest of token t                 *)
(*    <<"hex", d>>       the hex serialisation of the data d               *)
(* Times are integers (minutes); amounts are integers.                     *)
(***************************************************************************)
EXTENDS Integers, Sequences, FiniteSets, Bags, TLC

VARIABLES
    now,          \* datetime.utcnow(), read by the interpreter and by verify_time
    tz,           \* offset of the process's local time zone from UTC, in minutes
    vt_pc,        \* "idle", or "done" after a call of Transaction.validate_tx
    vt_tx,        \* the transaction validated
    vt_unspent,   \* the unspent coins it was validated against
    vt_verdict,   \* what validate_tx returned
    vm_pc,        \* "done" when that call has run the script interpreter
    vm_run,       \* the interpreter's state at the end of its loop
    blockchain,   \* the Blockchain on which try_append is called
    ta_pc,        \* "idle", or "returned" after a call of chain.try_append
    ta_block,     \* the block of that call
    ta_result,    \* what the call returned: [status, chain, receiver]
    chainbuilder, \* the ChainBuilder of the node, and what its last handler sent
    node,         \* of each node of a network of two: its Protocol, ChainBuilder and Miner
    peers,        \* of each node: its PeerConnection to the other node
    miner,        \* a Miner, its worker processes and the threads that call it
    protocol,     \* a Protocol and the peer connections it holds
    pow,          \* a ProofOfWork, and where its run() is
    rewards,      \* a chain position and the block rewards computed for it
    p2p           \* a Protocol, its connections and the threads that serve them

vt_vars == <<vt_pc, vt_tx, vt_unspent, vt_verdict, vm_pc, vm_run>>
ta_vars == <<blockchain, ta_pc, ta_block, ta_result>>
net_vars == <<node, peers>>
proc_vars == <<miner, protocol, pow, rewards, p2p>>
vars == <<now, tz, vt_vars, ta_vars, chainbuilder, net_vars, proc_vars>>

-----------------------------------------------------------------------------
(* Bounds of the model. *)

MaxTime == 2          \* the clock runs from 0 to MaxTime
MaxScriptLen == 3     \* tokens of a free-form unlock script plus lock script
MaxUnlockLen == 2     \* tokens of an unlock script for one of the standard locks
LockTime == 1         \* the timestamp of the time-locked output
CoinAmount == 5       \* the amount of the coin that validate_tx is tried on
MaxBlocks == 5        \* try_append is called on chains of fewer blocks than this
MaxRequestTime == 6   \* the clock of the node that waits for a block runs to this

-----------------------------------------------------------------------------
(* Keys and signatures: src/src/crypto.py *)

Keys == {"k1", "k2"}

KeyTok(k) == <<"key", k>>
SigTok(k, h) == <<"sig", k, h>>
NumTok(n) == <<"num", n>>
OpTok(name) == <<"op", name>>
DataTok(d) == <<"hex", d>>

\* Key.sign: the signature of hashed_value under the private key of k.
sign(k, hashed_value) == SigTok(k, hashed_value)

\* A verification that does not look at the key.
verify_sign_AnyKey(pubKey, hashed_value, signature) ==
    /\ signature[1] = "sig"
    /\ signature[3] = hashed_value

\* Key.verify_sign: signature is a signature of hashed_value by the key pubKey.
verify_sign(pubKey, hashed_value, signature) ==
    /\ signature[1] = "sig"
    /\ signature[2] = pubKey[2]
    /\ signature[3] = hashed_value

\* binascii.unhexlify succeeds on strings of an even number of hex digits:
\* serialised keys, signatures and digests.  The decimal strings of the
\* model's numbers ("0", "1", "1.0") are not such strings.
IsHex(tok) == tok[1] \in {"key", "sig", "sha", "hex"}

\* Key.from_json_compatible succeeds on the hex serialisation of a key only.
IsKey(tok) == tok[1] = "key"

\* float() succeeds on decimal strings only.
IsNum(tok) == tok[1] = "num"

-----------------------------------------------------------------------------
(* The script interpreter: src/src/scriptinterpreter.py                    *)
(* The state of an execution is [stack, failed, raised]: the stack (top    *)
(* last), whether some operation has returned False, and whether an        *)
(* exception has left the interpreter.                                     *)

operations == {"OP_SHA256", "OP_CHECKSIG", "OP_RETURN", "OP_CHECKLOCKTIME"}

Pop(stack) == SubSeq(stack, 1, Len(stack) - 1)
Top(stack) == stack[Len(stack)]

OpTrue(st, stack) == [st EXCEPT !.stack = stack]
OpFalse(st, stack) == [st EXCEPT !.stack = stack, !.failed = TRUE]
OpRaise(st) == [st EXCEPT !.raised = TRUE]

op_sha256(st) ==
    IF st.stack = <<>>
    THEN OpFalse(st, st.stack)
    ELSE OpTrue(st, Append(Pop(st.stack), <<"sha", Top(st.stack)>>))

op_checksig(st, tx_hash) ==
    IF Len(st.stack) < 2
    THEN OpFalse(st, Append(st.stack, NumTok(0)))
    ELSE LET pubKey == Top(st.stack)
             sig == Top(Pop(st.stack))
             rest == Pop(Pop(st.stack))
         IN  IF ~IsKey(pubKey) THEN OpRaise(st)
             ELSE IF ~IsHex(sig) THEN OpRaise(st)
             ELSE IF verify_sign(pubKey, tx_hash, sig)
                  THEN OpTrue(st, Append(rest, NumTok(1)))
                  ELSE OpFalse(st, Append(rest, NumTok(0)))

op_return(st) == OpFalse(st, Append(st.stack, NumTok(0)))

\* datetime.fromtimestamp(temp) is the local time of the instant temp;
\* it is compared with the UTC time datetime.utcnow().
op_checklocktime(st, utcnow, offset) ==
    IF st.stack = <<>> THEN OpRaise(st)                  \* pop from empty list
    ELSE IF ~IsNum(Top(st.stack)) THEN OpRaise(st)       \* float() fails
    ELSE LET error1 == Len(st.stack) < 2
             timestamp == Top(st.stack)[2] + offset
             error3 == timestamp > utcnow
         IN  IF error1 \/ error3
             THEN OpFalse(st, Append(Pop(st.stack), NumTok(0)))
             ELSE OpTrue(st, Pop(st.stack))

\* One iteration of the loop of execute_script.
ExecToken(st, next_item, tx_hash, utcnow, offset) ==
    IF ~(next_item[1] = "op" /\ next_item[2] \in operations)
    THEN [st EXCEPT !.stack = Append(st.stack, next_item)]
    ELSE CASE next_item[2] = "OP_SHA256" -> op_sha256(st)
           [] next_item[2] = "OP_CHECKSIG" -> op_checksig(st, tx_hash)
           [] next_item[2] = "OP_RETURN" -> op_return(st)
           [] next_item[2] = "OP_CHECKLOCKTIME" -> op_checklocktime(st, utcnow, offset)

RECURSIVE RunScript(_, _, _, _, _)
RunScript(st, script, tx_hash, utcnow, offset) ==
    IF st.raised \/ script = <<>> THEN st
    ELSE RunScript(ExecToken(st, Head(script), tx_hash, utcnow, offset),
                   Tail(script), tx_hash, utcnow, offset)

VmInit == [stack |-> <<>>, failed |-> FALSE, raised |-> FALSE]

\* The final state of execute_script's loop over input_script + output_script.
ScriptRun(input_script, output_script, tx_hash, utcnow, offset) ==
    RunScript(VmInit, input_script \o output_script, tx_hash, utcnow, offset)

\* What execute_script returns, given the final state of its loop.
ScriptVerdict(st) ==
    IF st.raised THEN "raise"
    ELSE IF Len(st.stack) = 1 /\ Top(st.stack) = NumTok(1) THEN "true"
    ELSE "false"

execute_script(input_script, output_script, tx_hash, utcnow, offset) ==
    ScriptVerdict(ScriptRun(input_script, output_script, tx_hash, utcnow, offset))

-----------------------------------------------------------------------------
(* Output scripts: src/src/transaction.py, TransactionTarget *)

burn(data) == <<data, OpTok("OP_RETURN")>>

\* TransactionTarget.has_data: what follows the first space of the script, or the
\* whole script when it has no space, is OP_RETURN.
has_data(target) ==
    LET script == target.pubkey_script
    IN  \/ Len(script) = 1 /\ script[1] = OpTok("OP_RETURN")
        \/ Len(script) = 2 /\ script[2] = OpTok("OP_RETURN")
pay_to_pubkey(k) == <<KeyTok(k), OpTok("OP_CHECKSIG")>>
pay_to_pubkey_lock(k, lock_time) ==
    <<NumTok(lock_time), OpTok("OP_CHECKLOCKTIME"), KeyTok(k), OpTok("OP_CHECKSIG")>>


-----------------------------------------------------------------------------
(* Transactions: src/src/transaction.py                                    *)
(* A transaction is [inputs, targets, iv]; an input is                     *)
(* [transaction_hash, output_idx, sig_script]; a target is                 *)
(* [pubkey_script, amount].  The timestamp is neither hashed nor           *)
(* validated and is left out.  A coin is <<transaction_hash, output_idx>>. *)

ZeroHash == <<"zero">>                       \* bytes(32)

TransactionInput(transaction_hash, output_idx, sig_script) ==
    [transaction_hash |-> transaction_hash, output_idx |-> output_idx,
     sig_script |-> sig_script]

TransactionTarget(pubkey_script, amount) ==
    [pubkey_script |-> pubkey_script, amount |-> amount]

Transaction(inputs, targets, iv) ==
    [inputs |-> inputs, targets |-> targets, iv |-> iv]

CoinOf(inp) == <<inp.transaction_hash, inp.output_idx>>

is_coinbase(inp) == inp.output_idx = -1

collides(inp, other) ==
    inp.transaction_hash = other.transaction_hash /\ inp.output_idx = other.output_idx

\* A hash over the unlock scripts of the inputs as well.
TxHash_WithScripts(t) ==
    <<"tx", t.iv,
      [i \in 1..Len(t.targets) |-> <<t.targets[i].amount, t.targets[i].pubkey_script>>],
      [i \in 1..Len(t.inputs) |-> <<t.inputs[i].transaction_hash, t.inputs[i].output_idx,
                                     t.inputs[i].sig_script>>]>>

\* Transaction.get_hash: the iv, the targets and, of each input, the hash and the
\* index of the coin; the unlock scripts are not hashed.
TxHash(t) ==
    <<"tx", t.iv,
      [i \in 1..Len(t.targets) |-> <<t.targets[i].amount, t.targets[i].pubkey_script>>],
      [i \in 1..Len(t.inputs) |-> <<t.inputs[i].transaction_hash, t.inputs[i].output_idx>>]>>

RECURSIVE SumSeq(_)
SumSeq(s) == IF s = <<>> THEN 0 ELSE Head(s) + SumSeq(Tail(s))

OutputAmount(t) == SumSeq([i \in 1..Len(t.targets) |-> t.targets[i].amount])

\* get_transaction_fee raises ValueError when an input is not in unspent_coins.
FeeRaises(t, unspent_coins) ==
    /\ ~is_coinbase(t.inputs[1])
    /\ \E i \in 1..Len(t.inputs) : CoinOf(t.inputs[i]) \notin DOMAIN unspent_coins

get_transaction_fee(t, unspent_coins) ==
    IF is_coinbase(t.inputs[1]) THEN 0
    ELSE SumSeq([i \in 1..Len(t.inputs) |-> unspent_coins[CoinOf(t.inputs[i])].amount])
         - OutputAmount(t)

\* A check of the amounts that lets every amount pass.
_verify_amounts_Any(t) == TRUE

_verify_amounts(t) == ~(\E i \in 1..Len(t.targets) : t.targets[i].amount < 0)

\* The loop of validate_tx from input number i on; "true", "false" or "raise".
RECURSIVE ValidateInputs(_, _, _, _, _)
ValidateInputs(t, i, unspent_coins, utcnow, offset) ==
    IF i > Len(t.inputs)
    THEN IF t.inputs = <<>> THEN "raise"      \* self.inputs[0] in get_transaction_fee
         ELSE IF get_transaction_fee(t, unspent_coins) >= 0 THEN "true" ELSE "false"
    ELSE LET inp == t.inputs[i]
         IN  IF is_coinbase(inp) /\ Len(t.inputs) > 1 THEN "false"
             ELSE IF is_coinbase(inp) THEN "true"
             ELSE IF CoinOf(inp) \notin DOMAIN unspent_coins THEN "false"
             ELSE LET res == execute_script(inp.sig_script,
                                            unspent_coins[CoinOf(inp)].pubkey_script,
                                            TxHash(t), utcnow, offset)
                  IN  IF res = "true"
                      THEN ValidateInputs(t, i + 1, unspent_coins, utcnow, offset)
                      ELSE res

validate_tx(t, unspent_coins, utcnow, offset) ==
    IF ~_verify_amounts(t) THEN "false"
    ELSE ValidateInputs(t, 1, unspent_coins, utcnow, offset)

\* check_tx_collision: other_tx is a sequence of transactions.
check_tx_collision(t, other_tx) ==
    \E j \in 1..Len(other_tx) : \E a \in 1..Len(other_tx[j].inputs) :
        \E b \in 1..Len(t.inputs) : collides(t.inputs[b], other_tx[j].inputs[a])

\* The inputs of t that designate coins.  The chain (blockchain.py, block.py)
\* takes the reward transaction to be the one without such inputs.
coin_inputs(t) == SelectSeq(t.inputs, LAMBDA inp : ~is_coinbase(inp))

is_reward(t) == coin_inputs(t) = <<>>

-----------------------------------------------------------------------------
(* Merkle tree: src/src/merkle.py *)

NoHash == <<"none">>                         \* b'', the hash of a missing child

MerkleNode(v1_hash, v2_hash) == <<"mk", v1_hash, v2_hash>>

\* One pass of the while loop: the nodes over the pairs of `values`.
MerkleLevel(values) ==
    [i \in 1..((Len(values) + 1) \div 2) |->
        MerkleNode(values[2 * i - 1],
                   IF 2 * i <= Len(values) THEN values[2 * i] ELSE NoHash)]

RECURSIVE MerkleRoot(_)
MerkleRoot(values) ==
    IF values = <<>> THEN MerkleNode(NoHash, NoHash)
    ELSE IF Len(values) = 1 THEN values[1]
    ELSE MerkleRoot(MerkleLevel(values))

\* merkle_tree(transactions).get_hash()
merkle_tree(transactions) ==
    MerkleRoot([i \in 1..Len(transactions) |-> TxHash(transactions[i])])

-----------------------------------------------------------------------------
(* Proof of work: src/src/proof_of_work.py *)

GENESIS_DIFFICULTY == 1000

\* crypto.MAX_HASH, the largest hash value, scaled down from 2^512 - 1.
MAX_HASH == 2^20 - 1

\* int.from_bytes(block.hash, ...).  The value of a hash is not computed: the
\* nonce 0 stands for a nonce that was not searched for (the smallest value),
\* any other nonce for one that ProofOfWork.run has found (the largest value).
HashInt(hash) == IF hash[6] = 0 THEN 0 ELSE MAX_HASH

\* "true", "false", or "raise" (ZeroDivisionError).
verify_proof_of_work(block) ==
    IF block.difficulty = 0 THEN "raise"
    ELSE IF block.difficulty < 0 THEN "false"   \* MAX_HASH // d < 0: above MAX_HASH
    ELSE IF HashInt(block.hash) > MAX_HASH - (MAX_HASH \div block.difficulty)
         THEN "true" ELSE "false"

-----------------------------------------------------------------------------
(* Blocks: src/src/block.py                                                *)
(* A block is [hash, prev_block_hash, merkle_root_hash, time, nonce,       *)
(* height, difficulty, transactions]; times are in minutes.                *)

TwoHours == 120
GenesisTime == 0        \* datetime(2017, 3, 3, 10, 35, 26, 922898), the origin of time

Block(hash_val, prev_block_hash, time, nonce, height, difficulty, transactions, merkle_root_hash) ==
    [hash |-> hash_val, prev_block_hash |-> prev_block_hash,
     merkle_root_hash |-> merkle_root_hash, time |-> time, nonce |-> nonce,
     height |-> height, difficulty |-> difficulty, transactions |-> transactions]

\* Block.get_hash (get_partial_hash, then finish_hash): the height and the
\* transactions themselves are not hashed.
get_hash(block) ==
    <<"blk", block.prev_block_hash, block.merkle_root_hash, block.time,
      block.difficulty, block.nonce>>

GenesisUnhashed ==
    Block(<<"none">>, <<"None; 5 60">>, GenesisTime, 0, 0, GENESIS_DIFFICULTY, <<>>,
          merkle_tree(<<>>))
GENESIS_BLOCK_HASH == get_hash(GenesisUnhashed)
GENESIS_BLOCK == [GenesisUnhashed EXCEPT !.hash = GENESIS_BLOCK_HASH]

verify_merkle(block) == merkle_tree(block.transactions) = block.merkle_root_hash

verify_difficulty(block) ==
    IF block.hash # get_hash(block) THEN "false"
    ELSE IF block.hash = GENESIS_BLOCK_HASH THEN "true"
    ELSE verify_proof_of_work(block)

-----------------------------------------------------------------------------
(* Block chains: src/src/blockchain.py                                     *)
(* A chain is [blocks, block_indices, unspent_coins]; block_indices and    *)
(* unspent_coins are functions on the set of their keys.  Indices into     *)
(* blocks count from 0 as in the code: block number n is blocks[n + 1].    *)

BLOCK_INTERVAL == 120
BLOCK_TARGET_TIMEDELTA == 1
REWARD == 1000
HALF_LIFE == 10000

Blockchain ==
    [blocks |-> <<GENESIS_BLOCK>>,
     block_indices |-> [h \in {GENESIS_BLOCK_HASH} |-> 0],
     unspent_coins |-> [c \in {} |-> 0]]

head(chain) == chain.blocks[Len(chain.blocks)]

\* get_block_by_hash returns None for an unknown hash.
HasBlock(chain, hash_val) == hash_val \in DOMAIN chain.block_indices
get_block_by_hash(chain, hash_val) == chain.blocks[chain.block_indices[hash_val] + 1]

compute_difficulty(chain, prev_block) ==
    LET block_idx == chain.block_indices[prev_block.hash] + 1
    IN  IF block_idx % BLOCK_INTERVAL # 0 THEN prev_block.difficulty
        ELSE LET duration == prev_block.time - chain.blocks[block_idx - BLOCK_INTERVAL + 1].time
                 new_difficulty == (prev_block.difficulty * BLOCK_TARGET_TIMEDELTA) \div duration
             IN  IF new_difficulty < chain.blocks[1].difficulty
                 THEN chain.blocks[1].difficulty
                 ELSE new_difficulty

RECURSIVE HalveWhilePositive(_, _)
HalveWhilePositive(l, reward) ==
    IF l > 0 THEN HalveWhilePositive(l - HALF_LIFE, reward \div 2) ELSE reward

compute_blockreward(chain, prev_block) ==
    HalveWhilePositive(chain.block_indices[prev_block.hash], REWARD)

-----------------------------------------------------------------------------
(* Verification of a block against a chain: src/src/block.py               *)
(* The verdicts are "true", "false" and "raise" (an exception).            *)

\* a and b, where b is evaluated only when a is true.
AndThen(a, b) == IF a = "true" THEN b ELSE a
Verdict(bool) == IF bool THEN "true" ELSE "false"

verify_prev_block(block, chain) ==
    IF block.hash = GENESIS_BLOCK_HASH THEN TRUE
    ELSE IF ~HasBlock(chain, block.prev_block_hash) THEN FALSE
    ELSE LET prev == get_block_by_hash(chain, block.prev_block_hash)
         IN  IF block.difficulty # compute_difficulty(chain, prev) THEN FALSE
             ELSE IF prev.height + block.difficulty # block.height THEN FALSE
             ELSE TRUE

\* Transaction.verify(chain, other_trans, prev_block), which block.py calls, is not
\* among the sources.  It is the validation of the transaction against the unspent
\* coins that existed just before the block (validate_tx), and the check that no
\* other transaction of the block spends one of its coins (check_tx_collision).
Transaction_verify(t, unspent_before, other_trans, utcnow, offset) ==
    AndThen(validate_tx(t, unspent_before, utcnow, offset),
            Verdict(~check_tx_collision(t, other_trans)))

OtherTransactions(block, i) ==
    SubSeq(block.transactions, 1, i - 1)
        \o SubSeq(block.transactions, i + 1, Len(block.transactions))

\* The loop of verify_transactions from transaction number i on; mining_reward
\* is the number of the reward transaction found so far, 0 for None.
RECURSIVE VerifyEach(_, _, _, _, _, _)
VerifyEach(block, i, mining_reward, unspent_before, utcnow, offset) ==
    IF i > Len(block.transactions) THEN [verdict |-> "true", mining_reward |-> mining_reward]
    ELSE LET t == block.transactions[i]
         IN  IF is_reward(t) /\ mining_reward # 0
             THEN [verdict |-> "false", mining_reward |-> mining_reward]
             ELSE LET v == Transaction_verify(t, unspent_before,
                                              OtherTransactions(block, i), utcnow, offset)
                  IN  IF v # "true" THEN [verdict |-> v, mining_reward |-> mining_reward]
                      ELSE VerifyEach(block, i + 1, IF is_reward(t) THEN i ELSE mining_reward,
                                      unspent_before, utcnow, offset)

\* The fees of the transactions of the block other than the reward transaction,
\* each computed from the coins it spends.
BlockFees(block, mining_reward, unspent_before) ==
    SumSeq([i \in 1..Len(block.transactions) |->
              IF i = mining_reward THEN 0
              ELSE get_transaction_fee(block.transactions[i], unspent_before)])

\* The check of the reward with one unit of slack.
verify_transactions_Slack(block, chain, unspent_before, utcnow, offset) ==
    IF block.hash = GENESIS_BLOCK_HASH THEN "true"
    ELSE LET each == VerifyEach(block, 1, 0, unspent_before, utcnow, offset)
         IN  IF each.verdict # "true" THEN each.verdict
             ELSE IF each.mining_reward = 0 THEN "true"
             ELSE LET fees == BlockFees(block, each.mining_reward, unspent_before)
                      reward == compute_blockreward(chain,
                                    get_block_by_hash(chain, block.prev_block_hash))
                      used == OutputAmount(block.transactions[each.mining_reward])
                  IN  Verdict(~(used > fees + reward + 1))

verify_transactions(block, chain, unspent_before, utcnow, offset) ==
    IF block.hash = GENESIS_BLOCK_HASH THEN "true"
    ELSE LET each == VerifyEach(block, 1, 0, unspent_before, utcnow, offset)
         IN  IF each.verdict # "true" THEN each.verdict
             ELSE IF each.mining_reward = 0 THEN "true"
             ELSE LET fees == BlockFees(block, each.mining_reward, unspent_before)
                      reward == compute_blockreward(chain,
                                    get_block_by_hash(chain, block.prev_block_hash))
                      used == OutputAmount(block.transactions[each.mining_reward])
                  IN  Verdict(~(used > fees + reward))

verify_time(block, chain, utcnow) ==
    IF block.hash = GENESIS_BLOCK_HASH THEN TRUE
    ELSE IF block.time - TwoHours > utcnow THEN FALSE
    ELSE IF block.time <= get_block_by_hash(chain, block.prev_block_hash).time THEN FALSE
    ELSE TRUE

\* The verification of a block without the check of its transactions.
verify_SkipTransactions(block, chain, unspent_before, utcnow, offset) ==
    IF block.height = 0 /\ block.hash # GENESIS_BLOCK_HASH THEN "false"
    ELSE AndThen(verify_difficulty(block),
         AndThen(Verdict(verify_merkle(block)),
         AndThen(Verdict(verify_prev_block(block, chain)),
                 Verdict(verify_time(block, chain, utcnow)))))

\* Block.verify(chain): chain is the chain that already ends with the block.
verify(block, chain, unspent_before, utcnow, offset) ==
    IF block.height = 0 /\ block.hash # GENESIS_BLOCK_HASH THEN "false"
    ELSE AndThen(verify_difficulty(block),
         AndThen(Verdict(verify_merkle(block)),
         AndThen(Verdict(verify_prev_block(block, chain)),
         AndThen(verify_transactions(block, chain, unspent_before, utcnow, offset),
                 Verdict(verify_time(block, chain, utcnow))))))

-----------------------------------------------------------------------------
(* Blockchain.try_append: src/src/blockchain.py *)

Without(unspent_coins, coin) ==
    [c \in DOMAIN unspent_coins \ {coin} |-> unspent_coins[c]]

\* unspent_coins[TransactionInput(t.get_hash(), i)] = target, for every target of t
WithTargets(unspent_coins, t) ==
    LET created == {<<TxHash(t), i - 1>> : i \in 1..Len(t.targets)}
    IN  [c \in DOMAIN unspent_coins \cup created |->
            IF c \in created THEN t.targets[c[2] + 1] ELSE unspent_coins[c]]

\* The inner loop over the inputs of one transaction: [ok, unspent_coins].
RECURSIVE SpendInputs(_, _)
SpendInputs(unspent_coins, inputs) ==
    IF inputs = <<>> THEN [ok |-> TRUE, unspent_coins |-> unspent_coins]
    ELSE IF CoinOf(Head(inputs)) \notin DOMAIN unspent_coins
         THEN [ok |-> FALSE, unspent_coins |-> unspent_coins]
         ELSE SpendInputs(Without(unspent_coins, CoinOf(Head(inputs))), Tail(inputs))

\* The outer loop over the transactions of the block: [ok, unspent_coins].
RECURSIVE ApplyTransactions(_, _)
ApplyTransactions(unspent_coins, transactions) ==
    IF transactions = <<>> THEN [ok |-> TRUE, unspent_coins |-> unspent_coins]
    ELSE LET t == Head(transactions)
             spent == SpendInputs(unspent_coins, coin_inputs(t))
         IN  IF ~spent.ok THEN spent
             ELSE ApplyTransactions(WithTargets(spent.unspent_coins, t), Tail(transactions))

\* The chain try_append builds before it verifies the block.
Appended(self, block, unspent_coins) ==
    [blocks |-> Append(self.blocks, block),
     block_indices |-> [h \in DOMAIN self.block_indices \cup {block.hash} |->
                           IF h = block.hash THEN Len(self.blocks)
                           ELSE self.block_indices[h]],
     unspent_coins |-> unspent_coins]

\* dict.copy(): the object that the writes to the result reach.  The copy is a new
\* object; copy_Shared is an assignment without copy, whose writes reach the owner.
copy_Shared(owner) == owner
copy(owner) == "new"

\* [status, chain, receiver]: status "ok" with the new chain, "none" (None is
\* returned) or "raise" (an exception leaves try_append), both with the chain left
\* as it is; receiver is the chain try_append was called on, as it is after the call.
try_append(self, block, utcnow, offset) ==
    LET applied == ApplyTransactions(self.unspent_coins, block.transactions)
        next_chain == Appended(self, block, applied.unspent_coins)
        receiver ==
            [self EXCEPT
                !.unspent_coins = IF copy("self") = "self" THEN applied.unspent_coins ELSE @,
                !.block_indices = IF copy("self") = "self" /\ applied.ok
                                  THEN next_chain.block_indices ELSE @]
    IN  IF ~applied.ok THEN [status |-> "none", chain |-> self, receiver |-> receiver]
        ELSE LET v == verify(block, next_chain, self.unspent_coins, utcnow, offset)
             IN  IF v = "true"
                 THEN [status |-> "ok", chain |-> next_chain, receiver |-> receiver]
                 ELSE IF v = "false"
                 THEN [status |-> "none", chain |-> self, receiver |-> receiver]
                 ELSE [status |-> "raise", chain |-> self, receiver |-> receiver]

-----------------------------------------------------------------------------
(* The chain builder: src/src/chainbuilder.py                              *)
(* A block request is [partial_chains, last_update, request_count].  The   *)
(* chain builder is the record                                             *)
(*   primary_block_chain       a chain                                     *)
(*   block_requests            a function from block hashes to requests    *)
(*   blockchain_checkpoints    a function from block hashes to chains      *)
(*   block_cache               a function from block hashes to blocks      *)
(*   unconfirmed_transactions  a function from hashes to transactions      *)
(*   sent      what the handler that ran last has sent and signalled       *)
(*   raised    whether an exception has left that handler                  *)

BLOCK_REQUEST_RETRY_INTERVAL == 1
BLOCK_REQUEST_RETRY_COUNT == 3

\* datetime(1970, 1, 1), in minutes from the time of the genesis block
Epoch1970 == 0 - 24808955

\* F applied to the value of the one element of S: the value is computed once,
\* before F is applied.
Bind(S, F(_)) == CHOOSE y \in {F(x) : x \in S} : TRUE

Emit(self, event) == [self EXCEPT !.sent = Append(@, event)]
Raise(self) == [self EXCEPT !.raised = TRUE]

MapWith(f, key, value) ==
    [k \in DOMAIN f \cup {key} |-> IF k = key THEN value ELSE f[k]]
MapWithout(f, key) == [k \in DOMAIN f \ {key} |-> f[k]]
Reverse(seq) == [i \in 1..Len(seq) |-> seq[Len(seq) + 1 - i]]

\* BlockRequest.clear
clear(request) == [request EXCEPT !.last_update = Epoch1970, !.request_count = 0]

\* BlockRequest()
BlockRequest == clear([partial_chains |-> <<<<>>>>, last_update |-> 0, request_count |-> 0])

\* The hash that send_request asks for.
RequestedHash(request) ==
    LET first == request.partial_chains[1]
    IN  first[Len(first)].prev_block_hash

send_request(request, utcnow) ==
    [request EXCEPT !.request_count = @ + 1, !.last_update = utcnow]

timeout_reached(request) == request.request_count > BLOCK_REQUEST_RETRY_COUNT

\* A retry that does not count the requests that were sent.
RetrySends_NoLimit(request, utcnow) ==
    request.last_update + BLOCK_REQUEST_RETRY_INTERVAL < utcnow

\* Whether checked_retry sends a request, and the request after checked_retry.
RetrySends(request, utcnow) ==
    /\ request.last_update + BLOCK_REQUEST_RETRY_INTERVAL < utcnow
    /\ ~(request.request_count >= BLOCK_REQUEST_RETRY_COUNT)

checked_retry(request, utcnow) ==
    IF request.last_update + BLOCK_REQUEST_RETRY_INTERVAL < utcnow
    THEN IF request.request_count >= BLOCK_REQUEST_RETRY_COUNT
         THEN [request EXCEPT !.request_count = @ + 1]
         ELSE send_request(request, utcnow)
    ELSE request

\* The requests that are sent go out as one event, a set of hashes.
_retry_expired_requests(self, utcnow) ==
    LET asked == {RequestedHash(self.block_requests[h]) :
                     h \in {k \in DOMAIN self.block_requests :
                               RetrySends(self.block_requests[k], utcnow)}}
        retried == [self EXCEPT !.block_requests =
                       [h \in DOMAIN @ |-> checked_retry(@[h], utcnow)]]
    IN  IF asked = {} THEN retried ELSE Emit(retried, <<"send_block_request", asked>>)

\* The partial chains of a request that are above the primary block chain.
LongerChains(self, request) ==
    SelectSeq(request.partial_chains,
              LAMBDA partial_chain :
                  partial_chain[1].height > head(self.primary_block_chain).height)

_clean_block_requests(self) ==
    LET kept == {h \in DOMAIN self.block_requests :
                    /\ ~timeout_reached(self.block_requests[h])
                    /\ LongerChains(self, self.block_requests[h]) # <<>>}
    IN  [self EXCEPT !.block_requests =
            [h \in kept |-> [self.block_requests[h] EXCEPT
                                !.partial_chains = LongerChains(self, self.block_requests[h])]]]

\* The purge of the unconfirmed transactions raises when validate_tx does.
_new_primary_block_chain(self, chain, utcnow, offset) ==
    LET s1 == [self EXCEPT !.primary_block_chain = chain]
        pool == self.unconfirmed_transactions
        verdict(h) == validate_tx(pool[h], chain.unspent_coins, utcnow, offset)
    IN  IF \E h \in DOMAIN pool : verdict(h) = "raise" THEN Raise(s1)
        ELSE Bind({Emit([s1 EXCEPT !.unconfirmed_transactions =
                           [h \in {k \in DOMAIN pool : verdict(k) = "true"} |-> pool[h]]],
                        <<"chain_change">>)}, LAMBDA s2 :
             Bind({_retry_expired_requests(s2, utcnow)}, LAMBDA s3 :
             Bind({_clean_block_requests(s3)}, LAMBDA s4 :
             Emit(s4, <<"broadcast_primary_block", head(chain).hash>>))))

\* math.floor(math.log(n, 2)), for n >= 1
RECURSIVE FloorLog2(_)
FloorLog2(n) == IF n < 2 THEN 0 ELSE 1 + FloorLog2(n \div 2)

\* The generator checkpoint_hashes(chain), from the state (chain_len, idx) on.
RECURSIVE CheckpointHashesFrom(_, _, _)
CheckpointHashesFrom(chain, chain_len, idx) ==
    IF chain_len > 1
    THEN LET cp == 2 ^ (FloorLog2(chain_len) - 1)
         IN  {chain.blocks[idx + cp + 1].hash}
                 \cup CheckpointHashesFrom(chain, chain_len - cp, idx + cp)
    ELSE {}

\* A generator that yields the hash of the genesis block only.
checkpoint_hashes_GenesisOnly(chain) ==
    {GENESIS_BLOCK_HASH}

checkpoint_hashes(chain) ==
    {GENESIS_BLOCK_HASH} \cup CheckpointHashesFrom(chain, Len(chain.blocks), 0)

\* The loop of _build_blockchain: [chain, checkpoints, broke, raised]; broke when
\* try_append has returned None, raised when an exception has left try_append.
RECURSIVE BuildLoop(_, _, _, _, _)
BuildLoop(chain, checkpoints, blocks, utcnow, offset) ==
    IF blocks = <<>>
    THEN [chain |-> chain, checkpoints |-> checkpoints, broke |-> FALSE, raised |-> FALSE]
    ELSE Bind({try_append(chain, Head(blocks), utcnow, offset)}, LAMBDA r :
             IF r.status = "raise"
             THEN [chain |-> chain, checkpoints |-> checkpoints, broke |-> FALSE,
                   raised |-> TRUE]
             ELSE IF r.status = "none"
             THEN [chain |-> chain, checkpoints |-> checkpoints, broke |-> TRUE,
                   raised |-> FALSE]
             ELSE Bind({MapWith(checkpoints, head(r.chain).hash, r.chain)}, LAMBDA cps :
                  Bind({Tail(blocks)}, LAMBDA rest :
                  BuildLoop(r.chain, cps, rest, utcnow, offset))))

\* A chain builder that also takes a chain of the height of its own.
_build_blockchain_Equal(self, checkpoint, blocks, utcnow, offset) ==
    Bind({BuildLoop(checkpoint, self.blockchain_checkpoints, blocks, utcnow, offset)},
         LAMBDA built :
        IF built.raised THEN Raise(self)
        ELSE IF head(built.chain).height < head(self.primary_block_chain).height THEN self
        ELSE IF built.broke THEN Raise(self)
        ELSE Bind({DOMAIN built.checkpoints \cap checkpoint_hashes(built.chain)},
                  LAMBDA keep :
             Bind({[self EXCEPT !.blockchain_checkpoints =
                       [h \in keep |-> built.checkpoints[h]]]}, LAMBDA s1 :
             _new_primary_block_chain(s1, built.chain, utcnow, offset))))

\* A chain builder that keeps every checkpoint it has.
_build_blockchain_KeepAll(self, checkpoint, blocks, utcnow, offset) ==
    Bind({BuildLoop(checkpoint, self.blockchain_checkpoints, blocks, utcnow, offset)},
         LAMBDA built :
        IF built.raised THEN Raise(self)
        ELSE IF head(built.chain).height <= head(self.primary_block_chain).height THEN self
        ELSE IF built.broke THEN Raise(self)
        ELSE Bind({[self EXCEPT !.blockchain_checkpoints = built.checkpoints]}, LAMBDA s1 :
             _new_primary_block_chain(s1, built.chain, utcnow, offset)))

\* When the loop has ended on an invalid block, next_chain is None and
\* checkpoint_hashes(next_chain) raises.
_build_blockchain(self, checkpoint, blocks, utcnow, offset) ==
    Bind({BuildLoop(checkpoint, self.blockchain_checkpoints, blocks, utcnow, offset)},
         LAMBDA built :
        IF built.raised THEN Raise(self)
        ELSE IF head(built.chain).height <= head(self.primary_block_chain).height THEN self
        ELSE IF built.broke THEN Raise(self)
        ELSE Bind({DOMAIN built.checkpoints \cap checkpoint_hashes(built.chain)},
                  LAMBDA keep :
             Bind({[self EXCEPT !.blockchain_checkpoints =
                       [h \in keep |-> built.checkpoints[h]]]}, LAMBDA s1 :
             _new_primary_block_chain(s1, built.chain, utcnow, offset))))

\* The while loop of new_block_received: [partial_chains, block]
RECURSIVE WalkBack(_, _, _)
WalkBack(self, partial_chains, block) ==
    Bind({[i \in 1..Len(partial_chains) |-> Append(partial_chains[i], block)]},
         LAMBDA longer :
        IF \/ block.prev_block_hash \notin DOMAIN self.block_cache
           \/ block.prev_block_hash \in DOMAIN self.blockchain_checkpoints
        THEN [partial_chains |-> longer, block |-> block]
        ELSE Bind({self.block_cache[block.prev_block_hash]}, LAMBDA prev_block :
             WalkBack(self, longer, prev_block)))

\* The loop over the partial chains of the request, from number i on.
RECURSIVE BuildAll(_, _, _, _, _, _)
BuildAll(self, checkpoint, partial_chains, i, utcnow, offset) ==
    IF i > Len(partial_chains) \/ self.raised THEN self
    ELSE Bind({Reverse(partial_chains[i])}, LAMBDA blocks :
         Bind({_build_blockchain(self, checkpoint, blocks, utcnow, offset)}, LAMBDA s1 :
         BuildAll(s1, checkpoint, partial_chains, i + 1, utcnow, offset)))

\* The end of new_block_received: request.checked_retry(self.protocol), on a
\* request that is in block_requests under `key` or in none.
FinalRetry(self, request, key, utcnow) ==
    LET s1 == IF key \in DOMAIN self.block_requests /\ self.block_requests[key] = request
              THEN [self EXCEPT !.block_requests[key] = checked_retry(request, utcnow)]
              ELSE self
    IN  IF RetrySends(request, utcnow)
        THEN Emit(s1, <<"send_block_request", {RequestedHash(request)}>>)
        ELSE s1

\* new_block_received, once the block is in the block cache and the expired
\* requests have been retried.
ResolveRequest(self, block, utcnow, offset) ==
    Bind({WalkBack(self, BlockRequest.partial_chains, block)}, LAMBDA walked :
    Bind({walked.block.prev_block_hash}, LAMBDA prev :
    Bind({IF prev \in DOMAIN self.block_requests
          THEN [self.block_requests[prev] EXCEPT
                   !.partial_chains = @ \o walked.partial_chains]
          ELSE clear([BlockRequest EXCEPT !.partial_chains = walked.partial_chains])},
         LAMBDA request :
    Bind({[self EXCEPT !.block_requests = MapWith(@, prev, request)]}, LAMBDA s3 :
        IF prev \in DOMAIN s3.blockchain_checkpoints
        THEN Bind({[s3 EXCEPT !.block_requests = MapWithout(@, prev)]}, LAMBDA s4 :
             Bind({BuildAll(s4, s4.blockchain_checkpoints[prev],
                            request.partial_chains, 1, utcnow, offset)}, LAMBDA s5 :
             IF s5.raised THEN s5 ELSE FinalRetry(s5, request, prev, utcnow)))
        ELSE FinalRetry(s3, request, prev, utcnow)))))

new_block_received(self, block, utcnow, offset) ==
    IF block.hash \in DOMAIN self.block_cache THEN self
    ELSE IF verify_difficulty(block) = "raise" THEN Raise(self)
    ELSE IF verify_difficulty(block) = "false" \/ ~verify_merkle(block) THEN self
    ELSE Bind({[self EXCEPT !.block_cache = MapWith(@, block.hash, block)]}, LAMBDA s1 :
         Bind({_retry_expired_requests(s1, utcnow)}, LAMBDA s2 :
         IF block.hash \in DOMAIN s2.block_requests THEN s2
         ELSE ResolveRequest(s2, block, utcnow, offset)))

\* input_ok, the local function of new_transaction_received
input_ok(self, inp) ==
    \/ CoinOf(inp) \in DOMAIN self.primary_block_chain.unspent_coins
    \/ inp.transaction_hash \in DOMAIN self.unconfirmed_transactions

new_transaction_received(self, transaction) ==
    LET hash_val == TxHash(transaction)
    IN  IF /\ hash_val \notin DOMAIN self.unconfirmed_transactions
           /\ \A i \in 1..Len(transaction.inputs) : input_ok(self, transaction.inputs[i])
        THEN Emit(Emit([self EXCEPT !.unconfirmed_transactions =
                           MapWith(@, hash_val, transaction)],
                       <<"broadcast_transaction", hash_val>>),
                  <<"transaction_change">>)
        ELSE self

\* ChainBuilder(protocol)
ChainBuilder ==
    [primary_block_chain |-> Blockchain,
     block_requests |-> <<>>,
     blockchain_checkpoints |-> [h \in {GENESIS_BLOCK_HASH} |-> Blockchain],
     block_cache |-> [h \in {GENESIS_BLOCK_HASH} |-> GENESIS_BLOCK],
     unconfirmed_transactions |-> <<>>,
     sent |-> <<>>,
     raised |-> FALSE]

-----------------------------------------------------------------------------
(* Two nodes and the connection between them: src/src/protocol.py,         *)
(* src/src/mining.py                                                       *)

hexlify(b) == <<"hex", b>>
unhexlify(s) == s[2]
strftime(t) == <<"%Y-%m-%dT%H:%M:%S.%f UTC", t>>
strptime(s) == s[2]

TransactionInput_to_json_compatible(inp) ==
    [transaction_hash |-> hexlify(inp.transaction_hash), output_idx |-> inp.output_idx,
     sig_script |-> inp.sig_script]
TransactionInput_from_json_compatible(obj) ==
    TransactionInput(unhexlify(obj.transaction_hash), obj.output_idx, obj.sig_script)

Transaction_to_json_compatible(t) ==
    [hash |-> hexlify(TxHash(t)),
     inputs |-> [a \in 1..Len(t.inputs) |-> TransactionInput_to_json_compatible(t.inputs[a])],
     targets |-> t.targets,
     iv |-> hexlify(t.iv)]
Transaction_from_json_compatible(obj) ==
    Transaction([a \in 1..Len(obj.inputs) |-> TransactionInput_from_json_compatible(obj.inputs[a])],
                obj.targets, unhexlify(obj.iv))

to_json_compatible(block) ==
    [hash |-> hexlify(block.hash),
     prev_block_hash |-> hexlify(block.prev_block_hash),
     merkle_root_hash |-> hexlify(block.merkle_root_hash),
     time |-> strftime(block.time),
     nonce |-> block.nonce,
     height |-> block.height,
     difficulty |-> block.difficulty,
     transactions |-> [j \in 1..Len(block.transactions) |->
                          Transaction_to_json_compatible(block.transactions[j])]]
from_json_compatible(val) ==
    Block(unhexlify(val.hash), unhexlify(val.prev_block_hash), strptime(val.time), val.nonce,
          val.height, val.difficulty,
          [j \in 1..Len(val.transactions) |-> Transaction_from_json_compatible(val.transactions[j])],
          unhexlify(val.merkle_root_hash))

Nodes == {"n1", "n2"}
Other(n) == IF n = "n1" THEN "n2" ELSE "n1"

\* Protocol(bootstrap_peers, GENESIS_BLOCK, port).  _callback_queue maps the counter of
\* each queued event to <<prio, msg_type, msg_param, peer>>; peer is "self" for the
\* dummy peer and "peer" for the connection to the other node.
Protocol ==
    [_primary_block |-> to_json_compatible(GENESIS_BLOCK),
     _callback_queue |-> <<>>,
     _callback_counter |-> 0]

\* Miner(proto, reward_pubkey), before start_mining.  chain is the chain the running
\* proof of work builds on, if any; found counts the blocks this miner has found.
Miner ==
    [_started |-> FALSE, _stopped |-> FALSE, chain |-> <<>>, found |-> 0]

\* A node: Protocol, the ChainBuilder of its Miner, the Miner, and the threads that have
\* read or written the chain builder's state.
Node ==
    [proto |-> Protocol, chainbuilder |-> ChainBuilder, miner |-> Miner, accessed_by |-> {}]

\* PeerConnection(peer_addr, proto) before run() has completed the handshake.  socket
\* holds the messages written by the other end and not yet read; order lists the
\* counters of the messages read and not yet handled, oldest first.
PeerConnection ==
    [is_connected |-> FALSE, closed |-> FALSE, listed |-> TRUE,
     socket |-> <<>>, order |-> <<>>]

-----------------------------------------------------------------------------
(* The initial state.  The clock starts at the time of the genesis block;  *)
(* the time zone of the process is any of three, and never changes.        *)

\* No list of pipes: no process has the id 0.
None == <<0>>

\* Miner(proto, reward_pubkey), with the worker processes it has forked
\* (procs: "running", "finished" when the process has written its block and
\* left, "killed" when it was sent SIGKILL), its miner thread (pc, rxs, pids),
\* whether _chain_changed is among the chain change handlers, and where the
\* threads that call it are: the event thread "main", a thread "user" that calls
\* start_mining and the thread "shutdown" that calls shutdown.
Miner__init__ ==
    [_cur_miner_pids |-> <<>>,
     _cur_miner_pipes |-> None,
     _stopped |-> FALSE,
     _started |-> FALSE,
     procs |-> <<>>,
     thread |-> [pc |-> "none", rxs |-> None, pids |-> <<>>],
     handler |-> TRUE,
     pc |-> [t \in {"main", "user", "shutdown"} |-> "idle"]]

\* A Protocol that listens and has no peers yet.  conn has the connections
\* made so far; peers lists the numbers of those in Protocol.peers; accepting
\* is the number of the connection that IncomingHandler.handle has constructed
\* and not yet appended, or 0.
Listening ==
    [peers |-> <<>>, conn |-> <<>>, _callback_queue |-> <<>>, _callback_counter |-> 0,
     accepting |-> 0]

\* No nonce within the bound satisfies the proof of work.
NoNonce == 0 - 1

\* ProofOfWork(block), for a block whose hash satisfies the proof of work with
\* the nonce `valid` and with no smaller one; with where run() is (pc, and i,
\* the attempts made in the batch), the number of hashes it has computed,
\* how many of them it had computed when abort() was called, and whether
\* abort() was called before run().
ProofOfWork(valid) ==
    [stopped |-> FALSE, success |-> FALSE, nonce |-> 0, valid |-> valid,
     pc |-> "created", i |-> 0, attempts |-> 0, at_abort |-> NoNonce,
     before_run |-> FALSE, result |-> "pending"]

GENESIS_REWARD == 1000
REWARD_HALF_LIFE == 10000

\* utils.compute_blockreward_next_block
compute_blockreward_next_block(block_num) ==
    LET half_lives == block_num \div REWARD_HALF_LIFE
    IN  GENESIS_REWARD \div (2 ^ half_lives)

\* The rewards for the block that follows the block at the position block_num:
\* what Blockchain.compute_blockreward expects, its loop run on the index of
\* the predecessor, and what the miner pays.
Rewards(block_num) ==
    [block_num |-> block_num,
     validator |-> HalveWhilePositive(block_num, REWARD),
     miner |-> compute_blockreward_next_block(block_num)]

TZOffsets == {0 - 60, 0, 60}

NoCoins == [c \in {} |-> 0]

Init ==
    /\ now = GenesisTime
    /\ tz \in TZOffsets
    /\ vt_pc = "idle"
    /\ vt_tx = Transaction(<<>>, <<>>, <<>>)
    /\ vt_unspent = NoCoins
    /\ vt_verdict = "false"
    /\ vm_pc = "idle"
    /\ vm_run = VmInit
    /\ blockchain = Blockchain
    /\ ta_pc = "idle"
    /\ ta_block = GENESIS_BLOCK
    /\ ta_result = [status |-> "none", chain |-> Blockchain, receiver |-> Blockchain]
    /\ chainbuilder = ChainBuilder
    /\ node = [n \in Nodes |-> Node]
    /\ peers = [n \in Nodes |-> PeerConnection]
    /\ miner = Miner__init__
    /\ protocol = [constructed |-> FALSE, peers |-> EmptyBag]
    /\ pow = ProofOfWork(NoNonce)
    /\ rewards = Rewards(0)
    /\ p2p = Listening

-----------------------------------------------------------------------------
(* Calls of validate_tx.  The transaction spends one coin of CoinAmount,   *)
(* locked by the script `lock`, with the unlock script `unlock`, and pays  *)
(* CoinAmount + delta to the key k2; the coin is unspent or not.           *)

\* The reward transaction that mining_strategy.create_block builds.
CoinbaseInput == TransactionInput(ZeroHash, 0 - 1, <<>>)
RewardTx(k, amount, iv) ==
    Transaction(<<CoinbaseInput>>, <<TransactionTarget(pay_to_pubkey(k), amount)>>, iv)

SampleCoinTx == RewardTx("k1", CoinAmount, <<"a">>)
SampleCoin == <<TxHash(SampleCoinTx), 0>>
OtherHash == TxHash(SampleCoinTx)

SpendTx(unlock, delta) ==
    Transaction(<<TransactionInput(SampleCoin[1], SampleCoin[2], unlock)>>,
                <<TransactionTarget(pay_to_pubkey("k2"), CoinAmount + delta)>>, <<>>)

\* The tokens of the scripts tried on a transaction of hash h.
ScriptTokens(h) ==
    {OpTok(o) : o \in operations}
        \cup {KeyTok("k1"), sign("k1", h), sign("k2", h), sign("k1", OtherHash),
              NumTok(1), NumTok(LockTime)}

SeqsOfLen(S, k) == [1..k -> S]
SeqsUpTo(S, n) == UNION {SeqsOfLen(S, k) : k \in 0..n}

\* The standard lock scripts.
StandardLocks ==
    {pay_to_pubkey("k1"), pay_to_pubkey_lock("k1", LockTime), burn(DataTok("d"))}

Deltas == {0 - (CoinAmount + 1), 0 - 1, 0, 1}

\* Free-form scripts on the transaction that pays the whole coin, and unlock
\* scripts for the standard locks on each of the transactions.
FreeCases ==
    LET T == ScriptTokens(TxHash(SpendTx(<<>>, 0)))
    IN  UNION {{[unlock |-> u, lock |-> l, delta |-> 0, present |-> TRUE] :
                    u \in SeqsOfLen(T, k), l \in SeqsUpTo(T, MaxScriptLen - k)} :
               k \in 0..MaxScriptLen}

StandardCases ==
    UNION {{[unlock |-> u, lock |-> l, delta |-> d, present |-> p] :
                u \in SeqsUpTo(ScriptTokens(TxHash(SpendTx(<<>>, d))), MaxUnlockLen),
                l \in StandardLocks, p \in BOOLEAN} :
           d \in Deltas}

ValidateTx(c) ==
    /\ vt_pc = "idle"
    /\ LET t == SpendTx(c.unlock, c.delta)
           unspent == IF c.present
                      THEN [x \in {SampleCoin} |-> TransactionTarget(c.lock, CoinAmount)]
                      ELSE NoCoins
           ran == _verify_amounts(t) /\ c.present
       IN  /\ vt_tx' = t
           /\ vt_unspent' = unspent
           /\ vt_verdict' = validate_tx(t, unspent, now, tz)
           /\ vm_pc' = IF ran THEN "done" ELSE "idle"
           /\ vm_run' = IF ran THEN ScriptRun(c.unlock, c.lock, TxHash(t), now, tz)
                        ELSE VmInit
    /\ vt_pc' = "done"
    /\ UNCHANGED <<now, tz, ta_vars, chainbuilder, net_vars, proc_vars>>

\* The caller is done with the result.
ValidateReturn ==
    /\ vt_pc = "done"
    /\ vt_pc' = "idle"
    /\ vt_tx' = Transaction(<<>>, <<>>, <<>>)
    /\ vt_unspent' = NoCoins
    /\ vt_verdict' = "false"
    /\ vm_pc' = "idle"
    /\ vm_run' = VmInit
    /\ UNCHANGED <<now, tz, ta_vars, chainbuilder, net_vars, proc_vars>>

\* A minute passes.
Tick ==
    /\ now < MaxTime
    /\ vt_pc = "idle"
    /\ ta_pc = "idle"
    /\ now' = now + 1
    /\ UNCHANGED <<tz, vt_vars, ta_vars, chainbuilder, net_vars, proc_vars>>

NextScript ==
    \/ \E c \in FreeCases \cup StandardCases : ValidateTx(c)
    \/ ValidateReturn
    \/ Tick

SpecScript == Init /\ [][NextScript]_vars

\* The lock script and the unlock script of the call of validate_tx.
vt_lock == vt_unspent[SampleCoin].pubkey_script
vt_unlock == vt_tx.inputs[1].sig_script
HasToken(script, tok) == \E i \in 1..Len(script) : script[i] = tok

-----------------------------------------------------------------------------
(* Claims about scripts *)

ScriptWasRun == vt_pc = "done" /\ vm_pc = "done"

\* C6: validate_tx accepts a transaction that spends a pay-to-pubkey output
\* only if the unlock script holds a signature of the hash of this very
\* transaction made with the key the output pays to; with no signature, one of
\* another key or one of another transaction's hash, it does not accept.
C6_SignatureRequired ==
    (ScriptWasRun /\ vt_lock = pay_to_pubkey("k1") /\ vt_verdict = "true")
        => HasToken(vt_unlock, sign("k1", TxHash(vt_tx)))

C6_Witness ==
    /\ ScriptWasRun
    /\ vt_lock = pay_to_pubkey("k1")
    /\ vt_verdict = "true"
    /\ vt_unlock = <<sign("k1", TxHash(vt_tx))>>

\* C7: a transaction that spends an output whose lock script contains the token
\* OP_RETURN is never accepted, whatever the unlock script and whatever
\* precedes or follows OP_RETURN in the lock script.
C7_OpReturnUnspendable ==
    (ScriptWasRun /\ HasToken(vt_lock, OpTok("OP_RETURN"))) => vt_verdict # "true"

\* C8: while the UTC time is earlier than the timestamp of a time-locked
\* output, no unlock script makes validate_tx accept its spending.
C8_LockedBeforeTimestamp ==
    (ScriptWasRun /\ vt_lock = pay_to_pubkey_lock("k1", LockTime) /\ now < LockTime)
        => vt_verdict # "true"

\* C9: when an operation of a script has failed (it returned False or raised),
\* the evaluation of the script fails, whatever follows in the script.
C9_FailureIsFinal ==
    (ScriptWasRun /\ (vm_run.failed \/ vm_run.raised)) => vt_verdict # "true"

-----------------------------------------------------------------------------
(* Candidate blocks for try_append, built from the chain they are tried on *)

\* Block.create(blockchain, transactions, ts)
create(bc, transactions, ts) ==
    LET difficulty == compute_difficulty(bc, head(bc))
        time == IF ts <= head(bc).time THEN head(bc).time + 1 ELSE ts
    IN  Block(NoHash, head(bc).hash, time, 0, head(bc).height + difficulty, difficulty,
              transactions, merkle_tree(transactions))

\* ProofOfWork.run has stopped at `nonce`; block.hash is the hash with that nonce.
Mined(block, nonce) ==
    LET b == [block EXCEPT !.nonce = nonce]
    IN  [b EXCEPT !.hash = get_hash(b)]

\* The transactions of the blocks of a chain, and the coins their outputs created.
ChainTransactions(bc) ==
    UNION {{bc.blocks[i].transactions[j] : j \in 1..Len(bc.blocks[i].transactions)} :
           i \in 1..Len(bc.blocks)}
CoinsCreatedBy(t) == {<<TxHash(t), i - 1>> : i \in 1..Len(t.targets)}
CreatedCoins(bc) == UNION {CoinsCreatedBy(t) : t \in ChainTransactions(bc)}
TargetOfCoin(bc, coin) ==
    LET t == CHOOSE t \in ChainTransactions(bc) : coin \in CoinsCreatedBy(t)
    IN  t.targets[coin[2] + 1]

\* A coin that no transaction has created, and the output it claims to be.
PhantomCoin == <<TxHash(RewardTx("k1", CoinAmount, <<"phantom">>)), 0>>
PhantomTarget == TransactionTarget(pay_to_pubkey("k1"), CoinAmount)

OwnerOf(target) == target.pubkey_script[1][2]
OtherKey(k) == IF k = "k1" THEN "k2" ELSE "k1"

\* A transaction that spends `coins` and pays `amounts` to the key `payee`, each
\* input unlocked by the signature of sigs.
Pay(coins, sigs, payee, amounts) ==
    Transaction([i \in 1..Len(coins) |->
                    TransactionInput(coins[i][1], coins[i][2], <<sigs[i]>>)],
                [i \in 1..Len(amounts) |->
                    TransactionTarget(pay_to_pubkey(payee), amounts[i])], <<>>)

\* The same, each input signed by signer: Transaction.sign
Signed(coins, signer, payee, amounts) ==
    LET h == TxHash(Pay(coins, [i \in 1..Len(coins) |-> NumTok(0)], payee, amounts))
    IN  Pay(coins, [i \in 1..Len(coins) |-> sign(signer, h)], payee, amounts)

\* The owner of the coin pays its amount less fee to the other key.
Spend(coin, target, fee) ==
    Signed(<<coin>>, OwnerOf(target), OtherKey(OwnerOf(target)), <<target.amount - fee>>)

\* Ways of spending one coin, most of them wrong.
SpendVariants(coin, target) ==
    LET k == OwnerOf(target)
        a == target.amount
    IN  { Spend(coin, target, 0),
          Spend(coin, target, 1),
          Spend(coin, target, 0 - 1),                                \* pays too much
          Signed(<<coin>>, OtherKey(k), OtherKey(k), <<a>>),         \* another key
          Pay(<<coin>>, <<sign(k, OtherHash)>>, OtherKey(k), <<a>>), \* another hash
          Signed(<<coin>>, k, OtherKey(k), <<0 - 1, a + 1>>),        \* negative output
          Signed(<<coin, coin>>, k, OtherKey(k), <<a>>) }            \* the coin twice

\* A reward transaction with a second target that burns one unit.
BurnTx ==
    Transaction(<<CoinbaseInput>>,
                <<TransactionTarget(pay_to_pubkey("k1"), 1),
                  TransactionTarget(burn(DataTok("d")), 1)>>, <<"a">>)

RewardAmounts ==
    {0 - 1, REWARD, REWARD + 1} \cup {REWARD \div 2 + e : e \in 0..2}

CandidateTransactions(bc) ==
    LET unspent == DOMAIN bc.unspent_coins
        known == CreatedCoins(bc)
    IN  {<<>>}
        \cup {<<RewardTx("k1", x, <<"a">>)>> : x \in RewardAmounts}
        \cup UNION {{<<s>> : s \in SpendVariants(c, TargetOfCoin(bc, c))} : c \in known}
        \cup {<<s>> : s \in SpendVariants(PhantomCoin, PhantomTarget)}
        \cup UNION {{<<RewardTx("k1", REWARD \div 2 + e, <<"a">>),
                       Spend(c, bc.unspent_coins[c], f)>> : e \in 0..2, f \in 0..1} :
                    c \in unspent}
        \cup {<<Spend(c, bc.unspent_coins[c], 0), Spend(c, bc.unspent_coins[c], 1)>> :
                    c \in unspent}
        \cup {<<Spend(c, bc.unspent_coins[c], 1), RewardTx("k1", 1, <<"a">>)>> : c \in unspent}
        \cup {<<RewardTx("k1", 1, <<"a">>), RewardTx("k1", 1, <<"b">>)>>}
        \cup {<<BurnTx>>}

\* tests/utils.create_block(chain, **manipulate_fields): an empty block on the head
\* of the chain, with some of its fields replaced and its hash computed anew.
HeightChoices(bc) ==
    LET difficulty == compute_difficulty(bc, head(bc))
    IN  {0 - 1, head(bc).height, head(bc).height + difficulty + 1,
         head(bc).height + 2 * difficulty}

DifficultyChoices(bc) ==
    LET difficulty == compute_difficulty(bc, head(bc))
    IN  {0 - 1, 0, difficulty - 1, difficulty + 1}

TimeChoices(bc, utcnow) ==
    {head(bc).time - 1, head(bc).time, utcnow + TwoHours, utcnow + TwoHours + 1}

ManipulatedBlocks(bc, utcnow) ==
    LET block == create(bc, <<>>, head(bc).time)
    IN  {Mined([block EXCEPT !.height = h], 1) : h \in HeightChoices(bc)}
        \cup {Mined([block EXCEPT !.difficulty = d], 1) : d \in DifficultyChoices(bc)}
        \cup {Mined([block EXCEPT !.difficulty = d, !.height = head(bc).height + d], 1) :
                 d \in DifficultyChoices(bc)}
        \cup {Mined([block EXCEPT !.time = t], 1) : t \in TimeChoices(bc, utcnow)}

\* The chain as it was before its head was appended.
Parent(bc) ==
    [blocks |-> SubSeq(bc.blocks, 1, Len(bc.blocks) - 1),
     block_indices |-> [h \in {bc.blocks[i].hash : i \in 1..Len(bc.blocks) - 1} |->
                           bc.block_indices[h]],
     unspent_coins |-> NoCoins]

\* A block that a miner has created on the chain before its head was appended.
StaleBlocks(bc) ==
    IF Len(bc.blocks) < 2 THEN {}
    ELSE {Mined(create(Parent(bc), <<RewardTx("k2", 1, <<"stale">>)>>, GenesisTime), 1)}

\* Blocks created on the head of the chain and mined; one that was not mined;
\* the genesis block once more; blocks with fields replaced; a stale block.
CandidateBlocks(bc) ==
    {Mined(create(bc, txs, now), 1) : txs \in CandidateTransactions(bc)}
        \cup {Mined(create(bc, <<>>, now), 0), GENESIS_BLOCK}
        \cup ManipulatedBlocks(bc, now)
        \cup StaleBlocks(bc)

-----------------------------------------------------------------------------
(* Calls of try_append *)

TryAppend(block) ==
    /\ ta_pc = "idle"
    /\ vt_pc = "idle"
    /\ Len(blockchain.blocks) < MaxBlocks
    /\ ta_block' = block
    /\ ta_result' = try_append(blockchain, block, now, tz)
    /\ ta_pc' = "returned"
    /\ UNCHANGED <<now, tz, vt_vars, blockchain, chainbuilder, net_vars, proc_vars>>

\* The caller goes on with the chain that was returned, if one was, and else with
\* the chain it has called try_append on.
TryAppendReturn ==
    /\ ta_pc = "returned"
    /\ blockchain' = IF ta_result.status = "ok" THEN ta_result.chain ELSE ta_result.receiver
    /\ ta_pc' = "idle"
    /\ ta_block' = GENESIS_BLOCK
    /\ ta_result' = [status |-> "none", chain |-> Blockchain, receiver |-> Blockchain]
    /\ UNCHANGED <<now, tz, vt_vars, chainbuilder, net_vars, proc_vars>>

Next ==
    \/ \E block \in CandidateBlocks(blockchain) : TryAppend(block)
    \/ TryAppendReturn

\* A node whose local time is UTC.
InitUTC == Init /\ tz = 0

Spec == InitUTC /\ [][Next]_vars

-----------------------------------------------------------------------------
(* Claims about try_append *)

Returned == ta_pc = "returned"
Accepted == Returned /\ ta_result.status = "ok"
Rejected == Returned /\ ta_result.status # "ok"

\* The places <<j, a>> of the inputs of a sequence of transactions that name a coin.
CoinInputPlaces(txs) ==
    {p \in UNION {{<<j, a>> : a \in 1..Len(txs[j].inputs)} : j \in 1..Len(txs)} :
        ~is_coinbase(txs[p[1]].inputs[p[2]])}
CoinAt(txs, p) == CoinOf(txs[p[1]].inputs[p[2]])

\* The places <<i, j, a>> of the inputs of the chain that consume the coin, and the
\* places <<i, j, o>> of the outputs that create it.
Consumers(bc, coin) ==
    UNION {{<<i>> \o p : p \in {q \in CoinInputPlaces(bc.blocks[i].transactions) :
                                  CoinAt(bc.blocks[i].transactions, q) = coin}} :
           i \in 1..Len(bc.blocks)}
Creators(bc, coin) ==
    UNION {UNION {{<<i, j, o>> : o \in {n \in 1..Len(bc.blocks[i].transactions[j].targets) :
                                   <<TxHash(bc.blocks[i].transactions[j]), n - 1>> = coin}} :
                  j \in 1..Len(bc.blocks[i].transactions)} :
           i \in 1..Len(bc.blocks)}

\* The block names a coin that no earlier transaction of the block has created
\* and that is not among the unspent coins of the chain.
SpendsMissingCoin(bc, block) ==
    \E p \in CoinInputPlaces(block.transactions) :
        /\ CoinAt(block.transactions, p) \notin DOMAIN bc.unspent_coins
        /\ \A j \in 1..(p[1] - 1) :
              CoinAt(block.transactions, p) \notin CoinsCreatedBy(block.transactions[j])

\* Two inputs of the block, of one transaction or of two, name the same coin.
SpendsCoinTwice(block) ==
    \E p, q \in CoinInputPlaces(block.transactions) :
        p # q /\ CoinAt(block.transactions, p) = CoinAt(block.transactions, q)

C1_RejectsSpentCoins ==
    (Returned /\ (SpendsMissingCoin(blockchain, ta_block) \/ SpendsCoinTwice(ta_block)))
        => ta_result.status # "ok"

C1_NoCoinConsumedTwice ==
    \A coin \in CreatedCoins(blockchain) : Cardinality(Consumers(blockchain, coin)) <= 1

IsCoinbaseTx(t) == Len(t.inputs) = 1 /\ is_coinbase(t.inputs[1])
CoinbaseCount(block) ==
    Cardinality({j \in 1..Len(block.transactions) : IsCoinbaseTx(block.transactions[j])})

\* The amounts of the coins that t names, all of them unspent, and what remains of
\* them after the outputs of t.
SpendsUnspent(t, unspent) ==
    /\ \A a \in 1..Len(t.inputs) : ~is_coinbase(t.inputs[a])
    /\ \A a \in 1..Len(t.inputs) : CoinOf(t.inputs[a]) \in DOMAIN unspent
InputAmount(t, unspent) ==
    SumSeq([a \in 1..Len(t.inputs) |-> unspent[CoinOf(t.inputs[a])].amount])

HasNegativeOutput(t) == \E o \in 1..Len(t.targets) : t.targets[o].amount < 0
CreatesMoney(t, unspent) ==
    SpendsUnspent(t, unspent) /\ OutputAmount(t) > InputAmount(t, unspent)

\* The amounts of the coins named by a transaction of the chain, from the outputs
\* that created them.
ChainInputAmount(bc, t) ==
    SumSeq([a \in 1..Len(t.inputs) |-> TargetOfCoin(bc, CoinOf(t.inputs[a])).amount])

\* C3: try_append returns no chain for a block with a transaction that has a
\* negative output amount, nor for a block with a transaction without coinbase
\* input whose outputs sum to more than the coins it spends; no such
\* transaction is in a chain that try_append has accepted.
C3_NoMoneyCreated ==
    /\ (Returned /\ \E j \in 1..Len(ta_block.transactions) :
                       \/ HasNegativeOutput(ta_block.transactions[j])
                       \/ CreatesMoney(ta_block.transactions[j], blockchain.unspent_coins))
           => ta_result.status # "ok"
    /\ \A t \in ChainTransactions(blockchain) :
           /\ ~HasNegativeOutput(t)
           /\ ~IsCoinbaseTx(t) => OutputAmount(t) <= ChainInputAmount(blockchain, t)

\* A block with a correctly signed transaction that pays one unit more than the
\* unspent coin it spends was tried and rejected, on a chain that holds a
\* transaction which pays a fee.
C3_Witness ==
    /\ Rejected
    /\ \E c \in DOMAIN blockchain.unspent_coins :
           ta_block.transactions = <<Spend(c, blockchain.unspent_coins[c], 0 - 1)>>
    /\ \E t \in ChainTransactions(blockchain) :
           ~IsCoinbaseTx(t) /\ OutputAmount(t) < ChainInputAmount(blockchain, t)

\* The block was created on the head of the chain and mined, and is not from the
\* far future.
WellFormedOn(bc, block) ==
    /\ block.nonce # 0
    /\ block = Mined(create(bc, block.transactions, now), block.nonce)
    /\ block.time <= now + TwoHours

\* t spends one unspent pay-to-pubkey coin, with the signature of its owner, and
\* pays out no more than the coin.
ValidSpend(t, unspent) ==
    /\ Len(t.inputs) = 1
    /\ SpendsUnspent(t, unspent)
    /\ \E k \in Keys :
          /\ unspent[CoinOf(t.inputs[1])].pubkey_script = pay_to_pubkey(k)
          /\ t.inputs[1].sig_script = <<sign(k, TxHash(t))>>
    /\ ~HasNegativeOutput(t)
    /\ OutputAmount(t) <= InputAmount(t, unspent)

\* The block holds one coinbase transaction, of no negative amount, and beside
\* it only valid spends of different coins.
RewardBlock(bc, block) ==
    /\ WellFormedOn(bc, block)
    /\ CoinbaseCount(block) = 1
    /\ \A j \in 1..Len(block.transactions) :
          LET t == block.transactions[j]
          IN  IF IsCoinbaseTx(t) THEN ~HasNegativeOutput(t)
              ELSE ValidSpend(t, bc.unspent_coins)
    /\ ~SpendsCoinTwice(block)

CoinbaseTotal(block) ==
    SumSeq([j \in 1..Len(block.transactions) |->
              IF IsCoinbaseTx(block.transactions[j])
              THEN OutputAmount(block.transactions[j]) ELSE 0])
FeeTotal(bc, block) ==
    SumSeq([j \in 1..Len(block.transactions) |->
              IF IsCoinbaseTx(block.transactions[j]) THEN 0
              ELSE InputAmount(block.transactions[j], bc.unspent_coins)
                       - OutputAmount(block.transactions[j])])
ExpectedReward(bc) == compute_blockreward(bc, head(bc))

NonGenesisBlocks(bc) ==
    {i \in 1..Len(bc.blocks) : bc.blocks[i].hash # GENESIS_BLOCK_HASH}

-----------------------------------------------------------------------------
(* Claims about the frame of try_append and about the header of the block  *)

\* C12: try_append never modifies the chain it is called on: when the call has
\* returned, accepted or not, the blocks, block_indices and unspent_coins of the
\* receiver are those of before the call, and on acceptance the blocks of the
\* returned chain are the blocks of the receiver followed by the new block.
C12_ReceiverUnchanged ==
    Returned =>
        /\ ta_result.receiver = blockchain
        /\ (ta_result.status = "ok"
                => ta_result.chain.blocks = Append(blockchain.blocks, ta_block))

\* A block was rejected after try_append had written the outputs of one of its
\* transactions into its table of unspent coins.
C12_Witness ==
    /\ Rejected
    /\ ta_block.transactions # <<>>
    /\ ApplyTransactions(blockchain.unspent_coins, ta_block.transactions).unspent_coins
           # blockchain.unspent_coins

\* The block names a predecessor in the chain and its height is that of the
\* predecessor, or exceeds it by more than the difficulty computed for its
\* position, or its difficulty is not the computed one.
BadHeightOrDifficulty(bc, block) ==
    /\ HasBlock(bc, block.prev_block_hash)
    /\ LET prev == get_block_by_hash(bc, block.prev_block_hash)
           expected == compute_difficulty(bc, prev)
       IN  \/ block.height = prev.height
           \/ block.height > prev.height + expected
           \/ block.difficulty # expected

\* C13: try_append rejects (returns None for) every block whose height equals the
\* height of its predecessor or exceeds it by more than the correct increment, and
\* every block whose difficulty differs from the difficulty computed for its
\* position, also when the height is adjusted to the wrong difficulty.
C13_RejectsBadHeightDifficulty ==
    (Returned /\ BadHeightOrDifficulty(blockchain, ta_block)) => ta_result.status = "none"

\* The same, with an exception that leaves try_append counted as a rejection.
C13_NeverAccepted ==
    (Returned /\ BadHeightOrDifficulty(blockchain, ta_block)) => ta_result.status # "ok"

StrictlyIncreasingTimes(bc) ==
    \A i \in 1..(Len(bc.blocks) - 1) : bc.blocks[i].time < bc.blocks[i + 1].time

\* C14: try_append rejects every block whose time is not strictly greater than the
\* time of the head of the chain, and every block whose time is more than two
\* hours after the current UTC time; the times of the blocks of an accepted chain
\* are strictly increasing.
C14_TimesIncrease ==
    /\ (Returned /\ ta_block.time <= head(blockchain).time) => ta_result.status # "ok"
    /\ (Returned /\ ta_block.time > now + TwoHours) => ta_result.status # "ok"
    /\ StrictlyIncreasingTimes(blockchain)

\* The part of C14 about the far future.
C14_FarFutureRejected ==
    (Returned /\ ta_block.time > now + TwoHours) => ta_result.status # "ok"

-----------------------------------------------------------------------------
(* The chain builder and its network.  Two miners work on two branches, A  *)
(* and B, from the genesis block; the blocks reach the node in any order.  *)

RECURSIVE Extend(_, _)
Extend(bc, blocks) ==
    IF blocks = <<>> THEN bc
    ELSE Extend(try_append(bc, Head(blocks), GenesisTime, 0).chain, Tail(blocks))

\* A mined block on the head of bc with the reward transaction alone, whose iv is
\* the hash of the head as in mining_strategy.create_block.
MinerBlock(bc, k, amount) ==
    Mined(create(bc, <<RewardTx(k, amount, head(bc).hash)>>, GenesisTime), 1)

BlockA1 == MinerBlock(Blockchain, "k1", REWARD)
BlockA2 == MinerBlock(Extend(Blockchain, <<BlockA1>>), "k1", REWARD \div 2)
BlockA3 == MinerBlock(Extend(Blockchain, <<BlockA1, BlockA2>>), "k1", REWARD \div 2)
BlockB1 == MinerBlock(Blockchain, "k2", REWARD)
BlockB2 == MinerBlock(Extend(Blockchain, <<BlockB1>>), "k2", REWARD \div 2)
\* a block that takes too large a reward, and a block that was not mined
BlockB3 == MinerBlock(Extend(Blockchain, <<BlockB1, BlockB2>>), "k2", REWARD)
BlockUnmined == Mined(create(Blockchain, <<>>, GenesisTime), 0)

NetworkBlocks == {BlockA1, BlockA2, BlockA3, BlockB1, BlockB2, BlockB3, BlockUnmined}

\* The network layer hands a block to the chain builder.
NewBlockReceived(block) ==
    /\ vt_pc = "idle"
    /\ ta_pc = "idle"
    /\ chainbuilder' =
           Bind({[chainbuilder EXCEPT !.sent = <<>>, !.raised = FALSE]}, LAMBDA self :
                new_block_received(self, block, now, tz))
    /\ UNCHANGED <<now, tz, vt_vars, ta_vars, net_vars, proc_vars>>

NextBuilder ==
    \/ \E block \in NetworkBlocks : NewBlockReceived(block)
    \/ Tick

SpecBuilder == InitUTC /\ [][NextBuilder]_vars

primary == chainbuilder.primary_block_chain

IsPrefix(s, t) == Len(s) <= Len(t) /\ SubSeq(t, 1, Len(s)) = s

\* try_append has built `chain` from `checkpoint`, block by block.
BuiltFrom(checkpoint, chain, utcnow, offset) ==
    /\ IsPrefix(checkpoint.blocks, chain.blocks)
    /\ LET built == BuildLoop(checkpoint, <<>>,
                              SubSeq(chain.blocks, Len(checkpoint.blocks) + 1,
                                     Len(chain.blocks)),
                              utcnow, offset)
       IN  ~built.broke /\ ~built.raised /\ built.chain = chain

\* C10: the chain builder replaces its primary block chain only by a chain that
\* try_append has built block by block from one of its checkpoints and whose
\* head is strictly higher than the head of the primary block chain: the height
\* of the primary head never decreases and a chain of equal height never
\* takes the place of the primary block chain.
C10_ReplacedByHigherOnly ==
    [][chainbuilder'.primary_block_chain # primary
          => /\ head(chainbuilder'.primary_block_chain).height > head(primary).height
             /\ \E h \in DOMAIN chainbuilder.blockchain_checkpoints :
                    BuiltFrom(chainbuilder.blockchain_checkpoints[h],
                              chainbuilder'.primary_block_chain, now, tz)]_vars

\* The handler has just replaced the primary block chain by the branch B of three
\* blocks, and the first block of the branch A, of the height of the first of
\* B, has been received and is not in the primary block chain.
C10_Witness ==
    /\ \E i \in 1..Len(chainbuilder.sent) : chainbuilder.sent[i] = <<"chain_change">>
    /\ head(primary) = BlockB2
    /\ BlockA1.hash \in DOMAIN chainbuilder.block_cache
    /\ BlockA1.height = BlockB1.height

-----------------------------------------------------------------------------
(* The chain builder and its pool of unconfirmed transactions.  Blocks of  *)
(* the two branches and transactions reach the node in any order.          *)

PoolBlocks == {BlockA1, BlockA2, BlockB1, BlockB2}

\* The reward of the first block of the branch A is spent by PoolT1; PoolT2
\* spends the output of PoolT1, PoolT3 an output that PoolT1 does not have,
\* PoolT4 a coin that no transaction has created; PoolT5 is a reward transaction.
PoolT1 == Spend(<<TxHash(BlockA1.transactions[1]), 0>>, BlockA1.transactions[1].targets[1], 0)
PoolT2 == Spend(<<TxHash(PoolT1), 0>>, PoolT1.targets[1], 0)
PoolT3 == Spend(<<TxHash(PoolT1), 1>>, PoolT1.targets[1], 1)
PoolT4 == Spend(PhantomCoin, PhantomTarget, 0)
PoolT5 == RewardTx("k1", 1, <<"pool">>)
\* a transaction without inputs
PoolT6 == Transaction(<<>>, <<TransactionTarget(pay_to_pubkey("k1"), 1)>>, <<>>)

NetworkTransactions == <<PoolT1, PoolT2, PoolT3, PoolT4, PoolT5, PoolT6>>

\* The network layer hands a transaction to the chain builder.
NewTransactionReceived(transaction) ==
    /\ vt_pc = "idle"
    /\ ta_pc = "idle"
    /\ chainbuilder' =
           Bind({[chainbuilder EXCEPT !.sent = <<>>, !.raised = FALSE]}, LAMBDA self :
                new_transaction_received(self, transaction))
    /\ UNCHANGED <<now, tz, vt_vars, ta_vars, net_vars, proc_vars>>

NextPool ==
    \/ \E block \in PoolBlocks : NewBlockReceived(block)
    \/ \E n \in 1..Len(NetworkTransactions) : NewTransactionReceived(NetworkTransactions[n])

SpecPool == InitUTC /\ [][NextPool]_vars

pool == chainbuilder.unconfirmed_transactions

Broadcast(self, transaction) ==
    \E i \in 1..Len(self.sent) :
        self.sent[i] = <<"broadcast_transaction", TxHash(transaction)>>

\* The input names a coin of the primary block chain that is unspent, or an
\* output that a transaction of the pool has.
Resolves(self, inp) ==
    \/ CoinOf(inp) \in DOMAIN self.primary_block_chain.unspent_coins
    \/ /\ inp.transaction_hash \in DOMAIN self.unconfirmed_transactions
       /\ inp.output_idx \in
              0..(Len(self.unconfirmed_transactions[inp.transaction_hash].targets) - 1)

\* The same, but for any output index.
ResolvesByHash(self, inp) ==
    \/ CoinOf(inp) \in DOMAIN self.primary_block_chain.unspent_coins
    \/ inp.transaction_hash \in DOMAIN self.unconfirmed_transactions

Inserted(transaction) ==
    /\ chainbuilder'.unconfirmed_transactions = MapWith(pool, TxHash(transaction), transaction)
    /\ Broadcast(chainbuilder', transaction)

Dropped(transaction) ==
    /\ chainbuilder'.unconfirmed_transactions = pool
    /\ ~Broadcast(chainbuilder', transaction)

\* C15: when a transaction T is received, T is dropped and not broadcast if its
\* hash is in the pool; else T is inserted into the pool and broadcast if each of
\* its inputs names an unspent coin of the primary block chain or an existing
\* output of a transaction of the pool; in every other case the pool is left as
\* it is and nothing is broadcast.
C15_Admission ==
    [][\A n \in 1..Len(NetworkTransactions) :
          LET t == NetworkTransactions[n]
          IN  NewTransactionReceived(t) =>
                  IF TxHash(t) \in DOMAIN pool THEN Dropped(t)
                  ELSE IF \A i \in 1..Len(t.inputs) : Resolves(chainbuilder, t.inputs[i])
                       THEN Inserted(t)
                       ELSE Dropped(t)]_vars

\* The same, where an input may name any output index of a transaction of the pool.
C15_AdmissionByHash ==
    [][\A n \in 1..Len(NetworkTransactions) :
          LET t == NetworkTransactions[n]
          IN  NewTransactionReceived(t) =>
                  IF TxHash(t) \in DOMAIN pool THEN Dropped(t)
                  ELSE IF \A i \in 1..Len(t.inputs) : ResolvesByHash(chainbuilder, t.inputs[i])
                       THEN Inserted(t)
                       ELSE Dropped(t)]_vars

-----------------------------------------------------------------------------
(* The chain builder and a block that never arrives.  The first block of   *)
(* the branch A is not delivered; the blocks that follow it and the blocks *)
(* of the branch B reach the node in any order, while time passes.         *)

RequestBlocks == {BlockA2, BlockA3, BlockB1, BlockB2}

\* A minute passes.
TickRequest ==
    /\ now < MaxRequestTime
    /\ vt_pc = "idle"
    /\ ta_pc = "idle"
    /\ now' = now + 1
    /\ UNCHANGED <<tz, vt_vars, ta_vars, chainbuilder, net_vars, proc_vars>>

NextRequests ==
    \/ \E block \in RequestBlocks : NewBlockReceived(block)
    \/ TickRequest

SpecRequests == InitUTC /\ [][NextRequests]_vars

\* The handlers run as long as blocks arrive, and time passes.
SpecRequestsLive == SpecRequests /\ WF_vars(NextRequests)

requests == chainbuilder.block_requests

\* The hashes that the handler that ran last has asked the peers for.
Asked(self) ==
    UNION {self.sent[i][2] : i \in {j \in 1..Len(self.sent) :
                                      self.sent[j][1] = "send_block_request"}}

\* C17: for each block request the node sends at most BLOCK_REQUEST_RETRY_COUNT
\* getblock messages, and two getblock messages of one request that follow each
\* other are more than BLOCK_REQUEST_RETRY_INTERVAL apart: a handler asks for the
\* block of a request that was there before only if fewer than
\* BLOCK_REQUEST_RETRY_COUNT messages were sent for it, the last of them more
\* than the interval ago, and the request never counts more sent messages than
\* its count of attempts.
C17_RetryLimit ==
    [][\A h \in DOMAIN requests :
          (now' = now /\ h \in Asked(chainbuilder'))
              => /\ requests[h].request_count < BLOCK_REQUEST_RETRY_COUNT
                 /\ requests[h].last_update + BLOCK_REQUEST_RETRY_INTERVAL < now]_vars

\* The handler has just sent the last getblock message that a request may send,
\* two intervals or more after the first.
C17_Witness ==
    \E h \in DOMAIN requests :
        /\ h \in Asked(chainbuilder)
        /\ requests[h].request_count = BLOCK_REQUEST_RETRY_COUNT
        /\ requests[h].last_update = now
        /\ now >= 2 * (BLOCK_REQUEST_RETRY_INTERVAL + 1)

RequestHashes == {block.prev_block_hash : block \in RequestBlocks}

Exhausted(h) == h \in DOMAIN requests /\ timeout_reached(requests[h])

\* C18: a block request that is unanswered after BLOCK_REQUEST_RETRY_COUNT
\* attempts is eventually removed from the table of block requests, with the
\* partial chains that wait for its block.
C18_ExhaustedAbandoned ==
    \A h \in RequestHashes : [](Exhausted(h) => <>(h \notin DOMAIN requests))


-----------------------------------------------------------------------------
(* A network of two nodes: src/src/protocol.py, src/src/mining.py.         *)
(* Each node runs its event thread (_main_thread), the reader thread of    *)
(* its connection, and its miner.  The operators below take and return     *)
(* w = [node, peers], the state of both nodes.                             *)

MaxFound1 == 1     \* the blocks the miner of n1 finds
MaxFound2 == 2     \* the blocks the miner of n2 finds

MaxFound(n) == IF n = "n1" THEN MaxFound1 ELSE MaxFound2
reward_pubkey(n) == IF n = "n1" THEN "k1" ELSE "k2"

World == [node |-> node, peers |-> peers]

\* PeerConnection.send_msg on the connection of node n; what is written to a connection
\* whose other end is closed is lost.
send_msg(w, n, msg_type, msg_param) ==
    IF ~w.peers[n].is_connected \/ w.peers[Other(n)].closed THEN w
    ELSE [w EXCEPT !.peers[Other(n)].socket = Append(@, <<msg_type, msg_param>>)]

\* for peer in self.peers: peer.send_msg(msg_type, msg_param)
SendAll(w, n, msg_type, msg_param) ==
    IF w.peers[n].listed THEN send_msg(w, n, msg_type, msg_param) ELSE w

\* Protocol.received, with the counter taken and the event queued in one step
received(w, n, msg_type, msg_param, peer, prio) ==
    LET counter == w.node[n].proto._callback_counter + 1
    IN  [w EXCEPT !.node[n].proto._callback_counter = counter,
                  !.node[n].proto._callback_queue =
                      MapWith(@, counter, <<prio, msg_type, msg_param, peer>>)]

broadcast_primary_block(w, n, block) ==
    LET obj == to_json_compatible(block)
    IN  IF w.node[n].proto._primary_block = obj THEN w
        ELSE received(SendAll([w EXCEPT !.node[n].proto._primary_block = obj],
                              n, "block", obj),
                      n, "block", obj, "self", 0)

RECURSIVE send_block_request(_, _, _)
send_block_request(w, n, hashes) ==
    IF hashes = {} THEN w
    ELSE LET block_hash == CHOOSE h \in hashes : TRUE
         IN  send_block_request(SendAll(w, n, "getblock", hexlify(block_hash)), n,
                                hashes \ {block_hash})

\* PeerConnection.close: the unsent and unread messages are dropped
close(w, n) ==
    IF ~w.peers[n].is_connected THEN w
    ELSE received([w EXCEPT !.peers[n].is_connected = FALSE,
                            !.peers[n].closed = TRUE,
                            !.peers[n].socket = <<>>],
                  n, "disconnected", <<>>, "peer", 3)

\* Miner.start_mining called on thread `thread`: reads the primary chain and the
\* unconfirmed transactions (none here) of the chain builder.
start_mining(w, n, thread) ==
    [w EXCEPT !.node[n].miner._started = TRUE,
              !.node[n].miner.chain = <<w.node[n].chainbuilder.primary_block_chain>>,
              !.node[n].accessed_by = @ \cup {thread}]

_chain_changed(w, n) ==
    IF ~w.node[n].miner._stopped /\ w.node[n].miner._started
    THEN start_mining(w, n, "event") ELSE w

\* What the chain builder of node n asked of its protocol and its handlers
Call(w, n, event) ==
    CASE event[1] = "send_block_request" -> send_block_request(w, n, event[2])
      [] event[1] = "broadcast_primary_block" ->
             broadcast_primary_block(w, n, w.node[n].chainbuilder.block_cache[event[2]])
      [] event[1] = "chain_change" -> _chain_changed(w, n)
      [] OTHER -> w

RECURSIVE CallAll(_, _, _)
CallAll(w, n, sent) ==
    IF sent = <<>> THEN w ELSE CallAll(Call(w, n, Head(sent)), n, Tail(sent))

received_block(w, n, block, utcnow, offset) ==
    Bind({new_block_received([w.node[n].chainbuilder EXCEPT !.sent = <<>>, !.raised = FALSE],
                             from_json_compatible(block), utcnow, offset)},
         LAMBDA self :
             CallAll([w EXCEPT !.node[n].chainbuilder = self,
                               !.node[n].accessed_by = @ \cup {"event"}],
                     n, self.sent))

\* ChainBuilder.block_request_received
block_request_received(self, block_hash) ==
    IF block_hash \in DOMAIN self.block_cache THEN <<self.block_cache[block_hash]>> ELSE <<>>

received_getblock(w, n, block_hash) ==
    Bind({block_request_received(w.node[n].chainbuilder, unhexlify(block_hash))},
         LAMBDA block :
             Bind({[w EXCEPT !.node[n].accessed_by = @ \cup {"event"}]}, LAMBDA w1 :
                 IF block # <<>> THEN send_msg(w1, n, "block", to_json_compatible(block[1]))
                 ELSE w1))

received_disconnected(w, n) ==
    IF ~w.peers[n].is_connected THEN [w EXCEPT !.peers[n].listed = FALSE] ELSE w

\* Whether (prio1, counter1) comes before (prio2, counter2) in the PriorityQueue
Before(prio1, counter1, prio2, counter2) ==
    prio1 < prio2 \/ (prio1 = prio2 /\ counter1 < counter2)

\* PriorityQueue.get on a FIFO queue instead
get_Fifo(queue) ==
    CHOOSE c \in DOMAIN queue : \A d \in DOMAIN queue : c <= d

\* PriorityQueue.get: the counter of the least (prio, counter, ...) queued
get(queue) ==
    CHOOSE c \in DOMAIN queue :
        \A d \in DOMAIN queue : d = c \/ Before(queue[c][1], c, queue[d][1], d)

\* One turn of the loop of Protocol._main_thread of node n
_main_thread(w, n, utcnow, offset) ==
    LET queue == w.node[n].proto._callback_queue
        counter == get(queue)
        msg_type == queue[counter][2]
        msg_param == queue[counter][3]
        peer == queue[counter][4]
        w0 == [w EXCEPT !.node[n].proto._callback_queue = MapWithout(@, counter),
                        !.peers[n].order = IF peer = "peer" /\ msg_type # "disconnected"
                                           THEN Tail(@) ELSE @]
        w1 == CASE msg_type = "block" -> received_block(w0, n, msg_param, utcnow, offset)
                [] msg_type = "getblock" -> received_getblock(w0, n, msg_param)
                [] msg_type = "disconnected" -> received_disconnected(w0, n)
                [] OTHER -> w0
        raised == msg_type = "block" /\ w1.node[n].chainbuilder.raised
    IN  IF raised /\ peer # "self" THEN close(w1, n) ELSE w1

Update(w) == node' = w.node /\ peers' = w.peers /\ UNCHANGED proc_vars

\* The event thread of node n handles the next queued event.
Handle(n) ==
    /\ DOMAIN node[n].proto._callback_queue # {}
    /\ Update(_main_thread(World, n, now, tz))
    /\ UNCHANGED <<now, tz, vt_vars, ta_vars, chainbuilder, proc_vars>>

\* PeerConnection.run of node n after the handshake: the connection is open and the
\* head this node advertises is sent.
Run(n) ==
    /\ ~peers[n].is_connected
    /\ ~peers[n].closed
    /\ Update(send_msg([World EXCEPT !.peers[n].is_connected = TRUE],
                       n, "block", node[n].proto._primary_block))
    /\ UNCHANGED <<now, tz, vt_vars, ta_vars, chainbuilder, proc_vars>>

\* reader_thread of node n reads a message and hands it to Protocol.received.
Reader(n) ==
    /\ peers[n].is_connected
    /\ peers[n].socket # <<>>
    /\ LET msg == Head(peers[n].socket)
           w == [World EXCEPT !.peers[n].socket = Tail(@),
                              !.peers[n].order =
                                  Append(@, node[n].proto._callback_counter + 1)]
       IN  Update(received(w, n, msg[1], msg[2], "peer", 1))
    /\ UNCHANGED <<now, tz, vt_vars, ta_vars, chainbuilder, proc_vars>>

\* miner.start_mining() called by the program's main thread
StartMining(n) ==
    /\ ~node[n].miner._started
    /\ Update(start_mining(World, n, "main"))
    /\ UNCHANGED <<now, tz, vt_vars, ta_vars, chainbuilder, proc_vars>>

\* The proof of work of node n's miner ends: _miner_thread publishes the block.  The
\* coinbase pays what the validator allows at the position, so that every block found
\* is valid on the chain it was mined on.
Found(n) ==
    /\ node[n].miner.chain # <<>>
    /\ node[n].miner.found < MaxFound(n)
    /\ LET chain == node[n].miner.chain[1]
           amount == compute_blockreward(chain, head(chain))
       IN  Update(broadcast_primary_block(
                      [World EXCEPT !.node[n].miner.chain = <<>>,
                                    !.node[n].miner.found = @ + 1],
                      n, MinerBlock(chain, reward_pubkey(n), amount)))
    /\ UNCHANGED <<now, tz, vt_vars, ta_vars, chainbuilder, proc_vars>>

NextNet ==
    \/ \E n \in Nodes : StartMining(n)
    \/ \E n \in Nodes : Found(n)
    \/ \E n \in Nodes : Run(n)
    \/ \E n \in Nodes : Reader(n)
    \/ \E n \in Nodes : Handle(n)

SpecNet == InitUTC /\ [][NextNet]_vars

-----------------------------------------------------------------------------
(* Node n1 and a peer that sends it any block.                             *)

MaxSocket == 2     \* the messages the peer has sent and n1 has not read yet
MaxCounter == 5    \* the peer stops sending when n1 has counted this many events

PeerBlocks == {BlockB1, BlockB2, BlockB3, BlockUnmined}

\* The other end reads what it was sent, and sends a block.
PeerSends(block) ==
    /\ peers["n1"].is_connected
    /\ Len(peers["n1"].socket) < MaxSocket
    /\ node["n1"].proto._callback_counter + Len(peers["n1"].socket) < MaxCounter
    /\ peers' = [peers EXCEPT !["n1"].socket = Append(@, <<"block", to_json_compatible(block)>>),
                              !["n2"].socket = <<>>]
    /\ UNCHANGED <<now, tz, vt_vars, ta_vars, chainbuilder, node, proc_vars>>

NextPeer ==
    \/ StartMining("n1")
    \/ Found("n1")
    \/ Run("n1")
    \/ Reader("n1")
    \/ Handle("n1")
    \/ \E block \in PeerBlocks : PeerSends(block)

SpecPeer == InitUTC /\ [][NextPeer]_vars


-----------------------------------------------------------------------------
(* Claims about the handling of events *)

\* C16: when a received block leads to a candidate chain in which a block fails
\* validation, the handler of the event returns normally and the connection to the
\* peer that sent the block stays open: no handler of a block ends with an exception,
\* and no connection is closed.
C16_InvalidChainDropped ==
    \A n \in Nodes : ~node[n].chainbuilder.raised /\ ~peers[n].closed


queue(n) == node[n].proto._callback_queue

\* The counters of the events that the event thread of n takes from its queue in a step
Taken(n) == DOMAIN queue(n) \ DOMAIN node'[n].proto._callback_queue

\* C20: the event thread takes the queued event with the least (priority, counter):
\* every other queued event comes after it in that order; a message of the peer is
\* taken when it is the oldest message its reader has handed over and that is not
\* handled yet; and an event of priority 1 is never taken while an event of priority 0
\* is queued.
C20_QueueOrder ==
    [][\A n \in Nodes : \A c \in Taken(n) :
          /\ \A d \in DOMAIN queue(n) \ {c} :
                 Before(queue(n)[c][1], c, queue(n)[d][1], d)
          /\ (queue(n)[c][4] = "peer" /\ queue(n)[c][2] # "disconnected")
                 => c = Head(peers[n].order)
          /\ queue(n)[c][1] >= 1 => \A d \in DOMAIN queue(n) : queue(n)[d][1] # 0]_vars

\* A message of the peer is still queued although an event counted after it has been
\* handled: a local event has overtaken it.
C20_Witness ==
    \E n \in Nodes : \E c \in DOMAIN queue(n) :
        /\ queue(n)[c][1] = 1
        /\ \E d \in (c + 1)..node[n].proto._callback_counter : d \notin DOMAIN queue(n)


-----------------------------------------------------------------------------
(* Claims about the network of two nodes *)

\* C19: the state of a chain builder (its unconfirmed transactions, block cache, block
\* requests and primary chain) is read and written by the event thread of its protocol
\* only.
C19_OnlyEventThread ==
    \A n \in Nodes : node[n].accessed_by \subseteq {"event"}

primary_blocks(n) == node[n].chainbuilder.primary_block_chain.blocks

Max(a, b) == IF a >= b THEN a ELSE b
Min(a, b) == IF a <= b THEN a ELSE b

\* blocks[:k] as hashes
FirstHashes(blocks, k) == [i \in 1..Min(k, Len(blocks)) |-> blocks[i].hash]

\* Both connections are open, both heads have been sent, and every message has been
\* read and handled.
Settled ==
    \A n \in Nodes :
        /\ peers[n].is_connected
        /\ peers[n].socket = <<>>
        /\ DOMAIN queue(n) = {}

\* The assertions at the end of tests/test_proto.py
Converged ==
    LET chain_len1 == Len(primary_blocks("n1"))
        chain_len2 == Len(primary_blocks("n2"))
    IN  /\ (Max(chain_len1, chain_len2) * 90) \div 100 < Min(chain_len1, chain_len2)
        /\ FirstHashes(primary_blocks("n1"), (chain_len1 * 90) \div 100)
               = FirstHashes(primary_blocks("n2"), (chain_len1 * 90) \div 100)

\* C11: once two connected nodes that have extended their chains have exchanged their
\* heads and all messages are delivered and handled, their primary chains agree on the
\* first 90% of the blocks and their lengths differ by less than 10%.
C11_Converge == Settled => Converged

\* Once all is delivered and handled, the heads of the two primary chains are equally high.
C11_HeightsAgree ==
    Settled => head(node["n1"].chainbuilder.primary_block_chain).height
                   = head(node["n2"].chainbuilder.primary_block_chain).height


-----------------------------------------------------------------------------
(* Claims about the pool of unconfirmed transactions at a change of the    *)
(* primary block chain                                                     *)

StillValid(transaction, chain) ==
    validate_tx(transaction, chain.unspent_coins, now, tz) = "true"

\* C30: in a step that replaces the primary block chain, every transaction that the
\* pool holds afterwards validates against the unspent coins of the new chain, and
\* every transaction that has left the pool does not.
C30_PurgeExact ==
    [][primary' # primary =>
          /\ \A h \in DOMAIN chainbuilder'.unconfirmed_transactions :
                 StillValid(chainbuilder'.unconfirmed_transactions[h], primary')
          /\ \A h \in DOMAIN pool \ DOMAIN chainbuilder'.unconfirmed_transactions :
                 ~StillValid(pool[h], primary')]_vars

\* The same, for the steps whose handler has returned without an exception.
C30_PurgeExactOnReturn ==
    [][(primary' # primary /\ ~chainbuilder'.raised) =>
          /\ \A h \in DOMAIN chainbuilder'.unconfirmed_transactions :
                 StillValid(chainbuilder'.unconfirmed_transactions[h], primary')
          /\ \A h \in DOMAIN pool \ DOMAIN chainbuilder'.unconfirmed_transactions :
                 ~StillValid(pool[h], primary')]_vars


-----------------------------------------------------------------------------
(* Claims about the outputs that try_append adds to the unspent coins *)

\* The outputs <<j, i>> of the block: target i of transaction j
Outputs(block) ==
    UNION {{<<j, i>> : i \in 1..Len(block.transactions[j].targets)} :
              j \in 1..Len(block.transactions)}
OutputCoin(block, o) == <<TxHash(block.transactions[o[1]]), o[2] - 1>>
OutputTarget(block, o) == block.transactions[o[1]].targets[o[2]]

\* The coin is an input of a transaction of the block.
SpentInBlock(block, coin) ==
    \E j \in 1..Len(block.transactions) : \E a \in 1..Len(block.transactions[j].inputs) :
        CoinOf(block.transactions[j].inputs[a]) = coin

C24_EveryOutputUnspent ==
    Accepted =>
        \A o \in Outputs(ta_block) :
            SpentInBlock(ta_block, OutputCoin(ta_block, o))
                \/ OutputCoin(ta_block, o) \in DOMAIN ta_result.chain.unspent_coins


-----------------------------------------------------------------------------
(* Claims about the hash of a transaction *)

\* The two transactions have the same iv, the same targets and inputs that name
\* the same coins in the same order.
SameButScripts(t1, t2) ==
    /\ t1.iv = t2.iv
    /\ t1.targets = t2.targets
    /\ Len(t1.inputs) = Len(t2.inputs)
    /\ \A i \in 1..Len(t1.inputs) : CoinOf(t1.inputs[i]) = CoinOf(t2.inputs[i])

\* The unlock script of the validated transaction holds a signature of its hash.
SignedOwnHash(t) ==
    \E i \in 1..Len(t.inputs) : \E j \in 1..Len(t.inputs[i].sig_script) :
        \E k \in Keys : t.inputs[i].sig_script[j] = sign(k, TxHash(t))

\* C25: the hash of a transaction does not depend on the unlock scripts of its
\* inputs: every transaction that agrees with the validated one on the iv, the
\* targets and the coins of the inputs has the hash of the validated one, whatever
\* its unlock script, and so has the transaction without unlock script that was
\* signed.
C25_HashIgnoresUnlock ==
    vt_pc = "done" =>
        /\ \A d \in Deltas :
             \A u \in SeqsUpTo(ScriptTokens(TxHash(vt_tx)), MaxUnlockLen) :
                 SameButScripts(SpendTx(u, d), vt_tx) => TxHash(SpendTx(u, d)) = TxHash(vt_tx)
        /\ SameButScripts(SpendTx(<<>>, vt_tx.targets[1].amount - CoinAmount), vt_tx)
        /\ TxHash(SpendTx(<<>>, vt_tx.targets[1].amount - CoinAmount)) = TxHash(vt_tx)

\* A transaction was validated and accepted whose unlock script holds the
\* signature of its own hash, filled in after signing.
C25_Witness ==
    /\ vt_pc = "done"
    /\ vt_verdict = "true"
    /\ vt_tx.inputs[1].sig_script # <<>>
    /\ SignedOwnHash(vt_tx)


-----------------------------------------------------------------------------
(* Claims about the walk back of new_block_received and about the          *)
(* checkpoints                                                             *)

\* The hashes of the blocks that the step has put into the block cache.
NewlyCached ==
    DOMAIN chainbuilder'.block_cache \ DOMAIN chainbuilder.block_cache

\* The hashes that the retry of the requests that were pending asks for.
RetriedHashes(self) ==
    {RequestedHash(self.block_requests[h]) : h \in DOMAIN self.block_requests}

\* C26: when the chain builder receives a block that passes the cheap checks, is
\* not yet in the block cache and whose hash is the key of a pending block
\* request, the walk back goes on from the block and the request does not stay
\* pending under the hash of the block.
C26_AwaitedBlockResolved ==
    [][\A h \in NewlyCached :
           h \in DOMAIN requests => h \notin DOMAIN chainbuilder'.block_requests]_vars

\* A block whose hash is the key of a pending request leaves the requests as
\* they are but for their retries.
C26_AwaitedBlockIgnored ==
    [][\A h \in NewlyCached :
           h \in DOMAIN requests =>
               /\ DOMAIN chainbuilder'.block_requests = DOMAIN requests
               /\ \A k \in DOMAIN requests :
                      chainbuilder'.block_requests[k].partial_chains
                          = requests[k].partial_chains
               /\ chainbuilder'.primary_block_chain = primary]_vars

\* C27: when the chain builder receives a block that is not an awaited ancestor
\* and whose height is at most the height of the primary head, it may cache the
\* block, but it creates no block request, starts no partial chain and emits no
\* getblock but the retries of the requests that were pending.
C27_LowBlockNotPursued ==
    [][\A h \in NewlyCached :
           (/\ h \notin DOMAIN requests
            /\ chainbuilder'.block_cache[h].height <= head(primary).height) =>
               /\ DOMAIN chainbuilder'.block_requests \subseteq DOMAIN requests
               /\ \A k \in DOMAIN chainbuilder'.block_requests :
                      chainbuilder'.block_requests[k].partial_chains
                          = requests[k].partial_chains
               /\ Asked(chainbuilder') \subseteq RetriedHashes(chainbuilder)]_vars

\* C28: the chain builder emits a getblock request only for the hash of a
\* predecessor it does not have: the hashes the last handler asked for are
\* neither checkpoints nor in the block cache.
C28_AsksOnlyForMissing ==
    Asked(chainbuilder) \cap (DOMAIN chainbuilder.block_cache
                                 \cup DOMAIN chainbuilder.blockchain_checkpoints) = {}

\* C29: the hash of the genesis block and the hash of the primary head are
\* checkpoint keys, and every checkpoint h -> c is a chain whose head has the
\* hash h and whose blocks are a prefix of the blocks of the primary block chain.
C29_CheckpointsArePrefixes ==
    /\ GENESIS_BLOCK_HASH \in DOMAIN chainbuilder.blockchain_checkpoints
    /\ head(primary).hash \in DOMAIN chainbuilder.blockchain_checkpoints
    /\ \A h \in DOMAIN chainbuilder.blockchain_checkpoints :
           /\ head(chainbuilder.blockchain_checkpoints[h]).hash = h
           /\ IsPrefix(chainbuilder.blockchain_checkpoints[h].blocks, primary.blocks)

\* The handler has just swapped the primary block chain to the branch B of two
\* blocks, and the first block of the branch A is in the block cache: where it
\* came first, it was the primary head, and the fork branches off below it.
C29_Witness ==
    /\ \E i \in 1..Len(chainbuilder.sent) : chainbuilder.sent[i] = <<"chain_change">>
    /\ primary.blocks = <<GENESIS_BLOCK, BlockB1, BlockB2>>
    /\ BlockA1.hash \in DOMAIN chainbuilder.block_cache
    /\ BlockA1.hash \notin DOMAIN chainbuilder.blockchain_checkpoints


-----------------------------------------------------------------------------
(* The miner and its worker processes: src/src/mining.py.  The blocks of   *)
(* code that hold _miner_cond are one step each; what is read and written  *)
(* without the lock, _stopped in shutdown and in _chain_changed, is a step *)
(* of its own.  A worker that was sent SIGKILL counts as stopped.  The     *)
(* block that create_block returns is left out; create_block returns or    *)
(* raises.                                                                 *)

MaxPid == 3

Elements(seq) == {seq[i] : i \in 1..Len(seq)}

\* os.kill(pid, signal.SIGKILL) for each pid; a process that has left is skipped.
kill(procs, pids) ==
    [p \in DOMAIN procs |->
        IF p \in Elements(pids) /\ procs[p] = "running" THEN "killed" ELSE procs[p]]

\* A miner that forgets its workers without stopping them.
Miner_stop_mining_for_now_Forget(m) ==
    [m EXCEPT !._cur_miner_pids = <<>>]

\* Miner._stop_mining_for_now
Miner_stop_mining_for_now(m) ==
    [m EXCEPT !.procs = kill(@, m._cur_miner_pids), !._cur_miner_pids = <<>>]

\* start_process: fork a worker; the pipe has the number of the process.
start_process(m) ==
    [m EXCEPT !.procs = Append(@, "running")]

\* Miner.start_mining, the block under _miner_cond; created is FALSE when
\* mining_strategy.create_block raises.
Miner_start_mining(m, created) ==
    LET m1 == [m EXCEPT !.thread.pc = IF m._started THEN @ ELSE "wait",
                        !._started = TRUE]
    IN  IF ~created THEN m1
        ELSE Bind({Miner_stop_mining_for_now(m1)}, LAMBDA m2 :
             Bind({start_process(m2)}, LAMBDA m3 :
             Bind({Len(m3.procs)}, LAMBDA pid :
             [m3 EXCEPT !._cur_miner_pids = Append(@, pid),
                        !._cur_miner_pipes = <<pid>>])))

\* wait_for_miner, once the condition lets the miner thread go on
wait_for_miner(m) ==
    IF m._cur_miner_pipes = None
    THEN [m EXCEPT !.thread.pc = "exited"]
    ELSE [m EXCEPT !.thread = [pc |-> "result", rxs |-> m._cur_miner_pipes,
                               pids |-> m._cur_miner_pids],
                   !._cur_miner_pipes = None]

\* The end of the loop of _miner_thread, under _miner_cond.
collect(m) ==
    Bind({IF m._cur_miner_pids = m.thread.pids
          THEN [m EXCEPT !.procs = kill(@, m.thread.pids), !._cur_miner_pids = <<>>]
          ELSE m}, LAMBDA m1 :
    [m1 EXCEPT !.thread.pc = "wait"])

Running(m) == {p \in DOMAIN m.procs : m.procs[p] = "running"}

MinerStep(m) ==
    /\ miner' = m
    /\ UNCHANGED <<now, tz, vt_vars, ta_vars, chainbuilder, net_vars, protocol, pow, rewards, p2p>>

\* A thread calls miner.start_mining() while shutdown has not returned.
CallStartMining ==
    /\ miner.pc["user"] = "idle"
    /\ miner.pc["shutdown"] # "returned"
    /\ Len(miner.procs) < MaxPid
    /\ MinerStep([miner EXCEPT !.pc["user"] = "start_mining"])

\* The chain builder calls the handler _chain_changed on the event thread.
ChainChanged ==
    /\ miner.pc["main"] = "idle"
    /\ miner.handler
    /\ ~miner._stopped /\ miner._started
    /\ Len(miner.procs) < MaxPid
    /\ MinerStep([miner EXCEPT !.pc["main"] = "start_mining"])

\* The thread t gets the lock and runs start_mining.
StartMiningLocked(t, created) ==
    /\ miner.pc[t] = "start_mining"
    /\ MinerStep(Bind({Miner_start_mining(miner, created)}, LAMBDA m :
                 [m EXCEPT !.pc[t] = "idle"]))

\* Miner.shutdown: self._stopped = True
ShutdownStopped ==
    /\ miner.pc["shutdown"] = "idle"
    /\ MinerStep([miner EXCEPT !._stopped = TRUE, !.pc["shutdown"] = "stopped"])

\* Miner.shutdown: the block under _miner_cond
ShutdownLocked ==
    /\ miner.pc["shutdown"] = "stopped"
    /\ MinerStep(Bind({Miner_stop_mining_for_now(miner)}, LAMBDA m :
                 [m EXCEPT !.pc["shutdown"] = "remove"]))

\* Miner.shutdown: chain_change_handlers.remove, and the return
ShutdownReturns ==
    /\ miner.pc["shutdown"] = "remove"
    /\ MinerStep([miner EXCEPT !.handler = FALSE, !.pc["shutdown"] = "returned"])

\* The miner thread leaves wait_for_miner.
MinerThreadWait ==
    /\ miner.thread.pc = "wait"
    /\ miner._cur_miner_pipes # None \/ miner._stopped
    /\ MinerStep(wait_for_miner(miner))

\* wait_for_result returns the block of a worker that has finished, or raises
\* JSONDecodeError on the pipe of a worker that was killed.
MinerThreadResult ==
    /\ miner.thread.pc = "result"
    /\ \E p \in Elements(miner.thread.rxs) : miner.procs[p] # "running"
    /\ MinerStep([miner EXCEPT !.thread.pc = "collect"])

MinerThreadCollect ==
    /\ miner.thread.pc = "collect"
    /\ MinerStep(collect(miner))

\* The worker p finds the proof of work, writes the block and leaves.
WorkerFinishes(p) ==
    /\ miner.procs[p] = "running"
    /\ MinerStep([miner EXCEPT !.procs[p] = "finished"])

NextMiner ==
    \/ CallStartMining
    \/ ChainChanged
    \/ \E t \in {"main", "user"} : \E created \in BOOLEAN : StartMiningLocked(t, created)
    \/ ShutdownStopped
    \/ ShutdownLocked
    \/ ShutdownReturns
    \/ MinerThreadWait
    \/ MinerThreadResult
    \/ MinerThreadCollect
    \/ \E p \in DOMAIN miner.procs : WorkerFinishes(p)

SpecMiner == InitUTC /\ [][NextMiner]_vars

\* C21: at most one worker process of the miner is active at any time, under
\* every interleaving of start_mining, the chain change handler, the miner
\* thread and shutdown: every worker but the one started last has finished or
\* was killed before the next was forked.
C21_OneSession ==
    /\ Cardinality(Running(miner)) <= 1
    /\ \A p \in DOMAIN miner.procs : p < Len(miner.procs) => miner.procs[p] # "running"

\* A second worker runs after the first was killed, while the miner thread still
\* waits on the pipe of the first.
C21_Witness ==
    /\ Len(miner.procs) >= 2
    /\ miner.procs[1] = "killed"
    /\ miner.procs[2] = "running"
    /\ miner.thread.pc = "result"
    /\ miner.thread.rxs = <<1>>

\* C22: once shutdown has returned, no worker process of the miner is running.
C22_StoppedForGood ==
    miner.pc["shutdown"] = "returned" => Running(miner) = {}


-----------------------------------------------------------------------------
(* The peer connections a Protocol holds: src/src/protocol.py.  peers is   *)
(* the bag of the connections of Protocol.peers, each with the address     *)
(* _sock_addr it was made for and the address peer_addr that               *)
(* received_myport has set, or NoAddr.  A connection is in the bag from    *)
(* its construction until received_disconnected removes it, after it has   *)
(* closed or has failed to connect.                                        *)

MAX_PEERS == 10

NoAddr == "None"
Addrs == {"a1"}
BootstrapSizes == {0, 2, MAX_PEERS, MAX_PEERS + 1}

\* PeerConnection(peer_addr, proto, sock), as Protocol.peers sees it
NewConnection(peer_addr) ==
    [_sock_addr |-> peer_addr, peer_addr |-> NoAddr]

Copies(conn, n) == [c \in {x \in {conn} : n > 0} |-> n]

\* len(self.peers)
len(bag) == BagCardinality(bag)

\* Protocol.__init__: a connection to each of the bootstrap peers
Protocol__init__(self, bootstrap_peers) ==
    [self EXCEPT !.constructed = TRUE, !.peers = Copies(NewConnection("bootstrap"), bootstrap_peers)]

\* IncomingHandler.handle
handle(self) ==
    IF len(self.peers) > MAX_PEERS THEN self
    ELSE [self EXCEPT !.peers = @ (+) SetToBag({NewConnection("client")})]

\* Protocol.received_peer
received_peer(self, peer_addr) ==
    IF len(self.peers) >= MAX_PEERS THEN self
    ELSE IF \E peer \in BagToSet(self.peers) : peer.peer_addr = peer_addr THEN self
    ELSE [self EXCEPT !.peers = @ (+) SetToBag({NewConnection(peer_addr)})]

\* Protocol.received_disconnected, after the connection has closed or failed
remove(self, peer) ==
    [self EXCEPT !.peers = @ (-) SetToBag({peer})]

\* Protocol.received_myport: the sender gets its address, and is closed and
\* removed when another connected peer has that address.
received_myport(self, sender, peer_addr) ==
    IF \E peer \in BagToSet(self.peers) : peer.peer_addr = peer_addr
    THEN remove(self, sender)
    ELSE [self EXCEPT !.peers = (@ (-) SetToBag({sender}))
                                    (+) SetToBag({[sender EXCEPT !.peer_addr = peer_addr]})]

ProtocolStep(self) ==
    /\ protocol' = self
    /\ UNCHANGED <<now, tz, vt_vars, ta_vars, chainbuilder, net_vars, miner, pow, rewards, p2p>>

Construct(bootstrap_peers) ==
    /\ ~protocol.constructed
    /\ ProtocolStep(Protocol__init__(protocol, bootstrap_peers))

Incoming ==
    /\ protocol.constructed
    /\ ProtocolStep(handle(protocol))

ReceivedPeer(peer_addr) ==
    /\ protocol.constructed
    /\ ProtocolStep(received_peer(protocol, peer_addr))

ReceivedMyport(sender, peer_addr) ==
    /\ sender.peer_addr = NoAddr
    /\ ProtocolStep(received_myport(protocol, sender, peer_addr))

Disconnected(peer) ==
    ProtocolStep(remove(protocol, peer))

NextProtocol ==
    \/ \E bootstrap_peers \in BootstrapSizes : Construct(bootstrap_peers)
    \/ Incoming
    \/ \E peer_addr \in Addrs : ReceivedPeer(peer_addr)
    \/ \E sender \in BagToSet(protocol.peers) : \E peer_addr \in Addrs :
           ReceivedMyport(sender, peer_addr)
    \/ \E peer \in BagToSet(protocol.peers) : Disconnected(peer)

SpecProtocol == InitUTC /\ [][NextProtocol]_vars

\* C23: the number of peer connections of the node never exceeds MAX_PEERS, and
\* an inbound connection that arrives when the node holds MAX_PEERS connections
\* is rejected.
C23_PeerLimit ==
    len(protocol.peers) <= MAX_PEERS

\* No step takes a node that holds at most MAX_PEERS connections above
\* MAX_PEERS.
C23_InboundLimit ==
    [][(protocol.constructed /\ len(protocol.peers) <= MAX_PEERS)
          => len(protocol'.peers) <= MAX_PEERS]_vars

\* Gossiped addresses alone never take the node above MAX_PEERS.
C23_GossipLimit ==
    [][\A peer_addr \in Addrs :
           (protocol.constructed /\ len(protocol.peers) <= MAX_PEERS
               /\ protocol' = received_peer(protocol, peer_addr))
           => len(protocol'.peers) <= MAX_PEERS]_vars


-----------------------------------------------------------------------------
(* Claims about the swap of the primary block chain *)

Sent(self, msg) == \E i \in 1..Len(self.sent) : self.sent[i] = msg

\* C31: a swap of the primary block chain is atomic: the handler that replaces
\* primary_block_chain also completes the purge of the unconfirmed
\* transactions, calls the chain change handlers, cleans the block requests and
\* broadcasts the new head; it does not end in an exception with only the
\* primary block chain and the checkpoints replaced.
C31_SwapAtomic ==
    [][primary' # primary =>
          /\ ~chainbuilder'.raised
          /\ Sent(chainbuilder', <<"chain_change">>)
          /\ Sent(chainbuilder', <<"broadcast_primary_block", head(primary').hash>>)
          /\ chainbuilder'.block_requests = _clean_block_requests(chainbuilder').block_requests
          /\ \A h \in DOMAIN chainbuilder'.unconfirmed_transactions :
                 StillValid(chainbuilder'.unconfirmed_transactions[h], primary')]_vars

\* A swap that does not end in an exception is complete.
C31_SwapAtomicOnReturn ==
    [][(primary' # primary /\ ~chainbuilder'.raised) =>
          /\ Sent(chainbuilder', <<"chain_change">>)
          /\ Sent(chainbuilder', <<"broadcast_primary_block", head(primary').hash>>)
          /\ chainbuilder'.block_requests = _clean_block_requests(chainbuilder').block_requests]_vars


\* The unspent coins of the chain and the outputs of the transactions of the pool.
RECURSIVE WithPoolOutputs(_, _, _)
WithPoolOutputs(unspent_coins, transactions, hashes) ==
    IF hashes = {} THEN unspent_coins
    ELSE LET h == CHOOSE x \in hashes : TRUE
         IN  WithPoolOutputs(WithTargets(unspent_coins, transactions[h]), transactions,
                             hashes \ {h})

\* Every input of the transaction is an output of a transaction of the pool.
SpendsPoolOutputs(self, transaction) ==
    /\ transaction.inputs # <<>>
    /\ \A i \in 1..Len(transaction.inputs) :
           /\ transaction.inputs[i].transaction_hash \in DOMAIN self.unconfirmed_transactions
           /\ transaction.inputs[i].output_idx \in
                  0..(Len(self.unconfirmed_transactions[
                              transaction.inputs[i].transaction_hash].targets) - 1)

-----------------------------------------------------------------------------
(* Claims about the number of checkpoints *)

MaxChainLen == 32

\* The positions in a chain of chain_len blocks that checkpoint_hashes yields
\* after the genesis block, from the state (chain_len, idx) of the generator on.
RECURSIVE CheckpointPositionsFrom(_, _)
CheckpointPositionsFrom(chain_len, idx) ==
    IF chain_len > 1
    THEN LET cp == 2 ^ (FloorLog2(chain_len) - 1)
         IN  {idx + cp} \cup CheckpointPositionsFrom(chain_len - cp, idx + cp)
    ELSE {}

\* The positions of the checkpoints of a chain of n blocks that has grown block
\* by block: the checkpoints kept at n - 1 and the new head, less those that
\* checkpoint_hashes does not yield.
RECURSIVE KeptPositions(_)
KeptPositions(n) ==
    IF n = 1 THEN {0}
    ELSE (KeptPositions(n - 1) \cup {n - 1}) \cap ({0} \cup CheckpointPositionsFrom(n, 0))

\* count is at least log2(n) and at most 2 * log2(n)
WithinLogBounds(count, n) == 2 ^ count >= n /\ 2 ^ count <= n * n

NumCheckpoints == Cardinality(DOMAIN chainbuilder.blockchain_checkpoints)

\* C40, as stated: in every state of the chain builder the number of checkpoints
\* is at least log2(N) and at most 2 * log2(N), N the number of blocks of the
\* primary block chain, from the chain of the genesis block alone on.
C40_LogBounds ==
    WithinLogBounds(NumCheckpoints, Len(primary.blocks))

\* C40, amended: the chain of the genesis block alone has one checkpoint, the
\* genesis block, and from two blocks on the number of checkpoints is at least
\* log2(N) and at most 2 * log2(N); the same holds of a chain that grows block by
\* block to MaxChainLen blocks.
C40_LogBoundsFromTwo ==
    /\ Len(primary.blocks) = 1 => NumCheckpoints = 1
    /\ Len(primary.blocks) >= 2 => WithinLogBounds(NumCheckpoints, Len(primary.blocks))
    /\ \A n \in 2..MaxChainLen : WithinLogBounds(Cardinality(KeptPositions(n)), n)

\* The primary block chain has four blocks and three checkpoints: the checkpoint
\* at its second block was dropped.
C40_Witness ==
    /\ Len(primary.blocks) = 4
    /\ NumCheckpoints = 3
    /\ primary.blocks[2].hash \notin DOMAIN chainbuilder.blockchain_checkpoints


-----------------------------------------------------------------------------
(* The block reward at the positions of a chain: the first positions and   *)
(* the positions around each halving, up to where the reward is spent.     *)

MaxHalvings == 11

Positions ==
    0..60 \cup UNION {{k * REWARD_HALF_LIFE + d : d \in {0 - 1, 0, 1, 2, REWARD_HALF_LIFE \div 2}} :
                         k \in 1..MaxHalvings}

ComputeReward(block_num) ==
    /\ rewards' = Rewards(block_num)
    /\ UNCHANGED <<now, tz, vt_vars, ta_vars, chainbuilder, net_vars, miner, protocol, pow, p2p>>

NextReward == \E block_num \in Positions : ComputeReward(block_num)

SpecReward == InitUTC /\ [][NextReward]_vars

\* C38: the block reward that the validator expects for the block that follows
\* the block at the position h is GENESIS_REWARD >> (h / REWARD_HALF_LIFE), and
\* it is the reward that the miner computes for that position.
C38_RewardFormula ==
    /\ rewards.validator = GENESIS_REWARD \div (2 ^ (rewards.block_num \div REWARD_HALF_LIFE))
    /\ rewards.validator = rewards.miner

\* The reward of the miner follows the formula at every position.
C38_MinerFormula ==
    rewards.miner = GENESIS_REWARD \div (2 ^ (rewards.block_num \div REWARD_HALF_LIFE))


-----------------------------------------------------------------------------
(* A proof of work and its abort flag: src/src/proof_of_work.py.  A batch  *)
(* is BatchSize attempts in place of 1000.                                 *)

BatchSize == 3
MaxNonce == 7

\* ProofOfWork.abort
abort(self) ==
    [self EXCEPT !.stopped = TRUE, !.at_abort = self.attempts,
                 !.before_run = self.pc = "created"]

\* run() with a loop that never looks at the flag.
run_while_NoCheck(self) ==
    [self EXCEPT !.pc = "for", !.i = 0]

\* ProofOfWork.run: the test of the while loop
run_while(self) ==
    IF self.stopped THEN [self EXCEPT !.pc = "returned", !.result = "None"]
    ELSE [self EXCEPT !.pc = "for", !.i = 0]

\* ProofOfWork.run: one pass of the for loop, or its end
run_for(self) ==
    IF self.i = BatchSize THEN [self EXCEPT !.pc = "while"]
    ELSE IF self.nonce = self.valid
    THEN [self EXCEPT !.attempts = @ + 1, !.pc = "returned", !.result = "block"]
    ELSE [self EXCEPT !.attempts = @ + 1, !.nonce = @ + 1, !.i = @ + 1]

PowStep(self) ==
    /\ pow' = self
    /\ UNCHANGED <<now, tz, vt_vars, ta_vars, chainbuilder, net_vars, miner, protocol, rewards, p2p>>

\* A proof of work for another block.
NewProofOfWork(valid) ==
    /\ pow.pc \in {"created", "returned"}
    /\ PowStep(ProofOfWork(valid))

\* Another thread sets the flag, before run() or while it runs.
Abort ==
    /\ pow.pc # "returned"
    /\ ~pow.stopped
    /\ PowStep(abort(pow))

RunStart ==
    /\ pow.pc = "created"
    /\ PowStep([pow EXCEPT !.pc = "while"])

RunWhile ==
    /\ pow.pc = "while"
    /\ PowStep(run_while(pow))

RunFor ==
    /\ pow.pc = "for"
    /\ pow.nonce <= MaxNonce
    /\ PowStep(run_for(pow))

NextPow ==
    \/ \E valid \in {NoNonce} \cup 0..MaxNonce : NewProofOfWork(valid)
    \/ Abort
    \/ RunStart
    \/ RunWhile
    \/ RunFor

SpecPow == InitUTC /\ [][NextPow]_vars

\* run() has returned and the flag was set before it returned.
AbortedRun == pow.pc = "returned" /\ pow.stopped

\* C37: once the abort flag is set, run() ends after at most one further batch
\* of attempts and returns no result; when the flag is set before run()
\* starts, run() returns no result and tries no nonce.
C37_AbortReturnsNone ==
    AbortedRun =>
        /\ pow.result = "None"
        /\ pow.attempts - pow.at_abort <= BatchSize
        /\ pow.before_run => pow.attempts = 0

\* C37, as the code has it: after the flag is set run() makes at most the rest
\* of the batch it is in, and returns no result unless one of these attempts
\* finds the valid nonce, which it then returns; when the flag is set before
\* run() starts, run() returns no result and tries no nonce.
C37_EndsWithinBatch ==
    /\ pow.stopped =>
        /\ pow.attempts - pow.at_abort <= BatchSize
        /\ pow.attempts - pow.at_abort <= pow.i + 1
        /\ pow.before_run => pow.attempts = 0
    /\ AbortedRun =>
        /\ pow.result \in {"None", "block"}
        /\ pow.result = "block" => pow.nonce = pow.valid /\ pow.attempts > pow.at_abort
        /\ pow.before_run => pow.result = "None"

\* The flag was set in the middle of a batch, run() finished the batch and
\* returned no result.
C37_Witness ==
    /\ AbortedRun
    /\ pow.result = "None"
    /\ pow.at_abort > 0
    /\ pow.attempts > pow.at_abort


-----------------------------------------------------------------------------
(* The block that the miner builds: src/src/mining_strategy.py             *)

\* sorted(unconfirmed_transactions, key=fee, reverse=True): a stable sort, the
\* transactions of equal fee stay in the order of the list.
RECURSIVE InsertByFee(_, _, _)
InsertByFee(t, sorted, unspent_coins) ==
    IF sorted = <<>> THEN <<t>>
    ELSE IF get_transaction_fee(Head(sorted), unspent_coins)
                >= get_transaction_fee(t, unspent_coins)
    THEN <<Head(sorted)>> \o InsertByFee(t, Tail(sorted), unspent_coins)
    ELSE <<t>> \o sorted

RECURSIVE SortedByFee(_, _)
SortedByFee(transactions, unspent_coins) ==
    IF transactions = <<>> THEN <<>>
    ELSE InsertByFee(transactions[Len(transactions)],
                     SortedByFee(SubSeq(transactions, 1, Len(transactions) - 1), unspent_coins),
                     unspent_coins)

\* The loop of create_block over the sorted transactions: [raised, transactions].
RECURSIVE SelectTransactions(_, _, _, _, _)
SelectTransactions(sorted, transactions, unspent_coins, utcnow, offset) ==
    IF sorted = <<>> THEN [raised |-> FALSE, transactions |-> transactions]
    ELSE LET t == Head(sorted)
             v == validate_tx(t, unspent_coins, utcnow, offset)
         IN  IF v = "raise" THEN [raised |-> TRUE, transactions |-> transactions]
             ELSE SelectTransactions(Tail(sorted),
                      IF v = "true" /\ ~check_tx_collision(t, transactions)
                      THEN Append(transactions, t) ELSE transactions,
                      unspent_coins, utcnow, offset)

\* create_block with `reward` as the reward of the block: [status, block], with
\* the status "raise" when an exception leaves it.  Block.create is called as
\* block.py defines it, on the chain itself.
create_block_paying(chain, unconfirmed_transactions, pubkey, reward, utcnow, offset) ==
    LET unspent_coins == chain.unspent_coins
        fee_raises ==
            \E i \in 1..Len(unconfirmed_transactions) :
                \/ unconfirmed_transactions[i].inputs = <<>>
                \/ FeeRaises(unconfirmed_transactions[i], unspent_coins)
    IN  IF fee_raises THEN [status |-> "raise", block |-> GENESIS_BLOCK]
        ELSE LET selected == SelectTransactions(
                                 SortedByFee(unconfirmed_transactions, unspent_coins),
                                 <<>>, unspent_coins, utcnow, offset)
                 fees == SumSeq([i \in 1..Len(selected.transactions) |->
                             get_transaction_fee(selected.transactions[i], unspent_coins)])
                 trans == RewardTx(pubkey, fees + reward, head(chain).hash)
             IN  IF selected.raised THEN [status |-> "raise", block |-> GENESIS_BLOCK]
                 ELSE [status |-> "ok",
                       block |-> create(chain, <<trans>> \o selected.transactions, utcnow)]

\* mining_strategy.create_block
create_block(chain, unconfirmed_transactions, pubkey, utcnow, offset) ==
    create_block_paying(chain, unconfirmed_transactions, pubkey,
                        compute_blockreward_next_block(head(chain).height),
                        utcnow, offset)

\* list(unconfirmed_transactions.values()): the transactions of the pool, in
\* every order that the dictionary may have them.
RECURSIVE Orders(_)
Orders(S) ==
    IF S = {} THEN {<<>>}
    ELSE UNION {{<<x>> \o order : order \in Orders(S \ {x})} : x \in S}

PoolOrders == Orders({pool[h] : h \in DOMAIN pool})

\* The candidate is built and, mined, is appended to the chain it was built on.
CandidateAccepted(candidate, chain) ==
    /\ candidate.status = "ok"
    /\ try_append(chain, Mined(candidate.block, 1), now, tz).status = "ok"

\* C32: the block that create_block builds on the primary block chain from the
\* pool of unconfirmed transactions, once mined, is accepted by try_append of
\* that chain.
C32_CandidateAccepted ==
    \A order \in PoolOrders :
        CandidateAccepted(create_block(primary, order, "k1", now, tz), primary)

\* The same with the reward that the chain allows for its next block.
C32_SelectionAccepted ==
    \A order \in PoolOrders :
        CandidateAccepted(create_block_paying(primary, order, "k1",
                                     compute_blockreward(primary, head(primary)), now, tz),
                 primary)


-----------------------------------------------------------------------------
(* Two nodes whose miners publish the block that create_block builds:      *)
(* src/src/mining.py, src/src/mining_strategy.py, src/src/protocol.py      *)

MaxPublished1 == 2     \* the blocks the miner of n1 publishes
MaxPublished2 == 1     \* the blocks the miner of n2 publishes

MaxPublished(n) == IF n = "n1" THEN MaxPublished1 ELSE MaxPublished2

\* The proof of work of node n's miner ends, on the block that start_mining
\* has built with create_block on the chain it read; _miner_thread publishes
\* the block and ends the session.
Publish(n) ==
    /\ node[n].miner.chain # <<>>
    /\ node[n].miner.found < MaxPublished(n)
    /\ LET built == create_block(node[n].miner.chain[1], <<>>, reward_pubkey(n), now, tz)
       IN  Update(broadcast_primary_block(
                      [World EXCEPT !.node[n].miner.chain = <<>>,
                                    !.node[n].miner.found = @ + 1],
                      n, Mined(built.block, 1)))
    /\ UNCHANGED <<now, tz, vt_vars, ta_vars, chainbuilder, proc_vars>>

NextMining ==
    \/ \E n \in Nodes : StartMining(n)
    \/ \E n \in Nodes : Publish(n)
    \/ \E n \in Nodes : Run(n)
    \/ \E n \in Nodes : Reader(n)
    \/ \E n \in Nodes : Handle(n)

SpecMining == InitUTC /\ [][NextMining]_vars

Quiet(n) == DOMAIN node[n].proto._callback_queue = {}

\* Weak fairness of Handle(n), Reader(n) and Publish(n), each with its enabling
\* condition written out.
HandleFair(n) ==
    []<>Quiet(n) \/ []<><<Handle(n)>>_vars
ReaderFair(n) ==
    []<>(~(peers[n].is_connected /\ peers[n].socket # <<>>)) \/ []<><<Reader(n)>>_vars
PublishFair(n) ==
    []<>(~(node[n].miner.chain # <<>> /\ node[n].miner.found < MaxPublished(n)))
        \/ []<><<Publish(n)>>_vars

\* The threads of both nodes keep running and every proof of work ends.
SpecMiningLive ==
    SpecMining /\ \A n \in Nodes :
        WF_vars(Run(n)) /\ HandleFair(n) /\ ReaderFair(n) /\ PublishFair(n)

Advertised(n) ==
    node[n].proto._primary_block
        = to_json_compatible(head(node[n].chainbuilder.primary_block_chain))

\* C34: whenever the event queue of a node is empty and no handler runs, the
\* block the node advertises in the handshake, Protocol._primary_block, is the
\* serialized head of the primary block chain of its chain builder.
C34_AdvertisesPrimaryHead ==
    \A n \in Nodes : Quiet(n) => Advertised(n)

\* A proof-of-work session of node n is active, on a block that extends the
\* head of the primary block chain.
Mining(n) ==
    /\ node[n].miner.chain # <<>>
    /\ head(node[n].miner.chain[1]) = head(node[n].chainbuilder.primary_block_chain)

\* start_mining was called, and no session is active.
Idle(n) == node[n].miner._started /\ ~node[n].miner._stopped /\ node[n].miner.chain = <<>>

\* C33: after start_mining and until shutdown, whenever a proof-of-work session
\* ends, a new session on a block that extends the current primary head
\* eventually becomes active.
C33_MiningResumes ==
    \A n \in Nodes : Idle(n) ~> Mining(n)


-----------------------------------------------------------------------------
(* The block cache and blocks of one hash: src/src/chainbuilder.py,        *)
(* src/src/block.py.  A peer sends the blocks of the two branches and      *)
(* blocks that differ from them in what the hash does not cover.           *)

\* The second block of the branch A, with a transaction that spends the reward
\* of the first.
BlockA2Spend ==
    LET bc == Extend(Blockchain, <<BlockA1>>)
    IN  Mined(create(bc, <<RewardTx("k1", REWARD \div 2, head(bc).hash), PoolT1>>,
                     GenesisTime), 1)

\* The block with another height, and with no unlock script in the input of its
\* second transaction; get_hash and the Merkle root cover neither.
WrongHeight(block) == [block EXCEPT !.height = @ + 1]
WrongUnlock(block) == [block EXCEPT !.transactions[2].inputs[1].sig_script = <<>>]

ValidBlocks == {BlockA1, BlockA2Spend, BlockB1, BlockB2}
CacheBlocks == ValidBlocks \cup {WrongHeight(BlockA1), WrongUnlock(BlockA2Spend)}

NextCache ==
    \/ \E block \in CacheBlocks : NewBlockReceived(block)
    \/ Tick

SpecCache == InitUTC /\ [][NextCache]_vars

\* The block follows the head of the primary block chain, can be appended to
\* the chain and is not awaited by a block request.
Fits(block) ==
    /\ block.hash \notin DOMAIN requests
    /\ block.prev_block_hash = head(primary).hash
    /\ try_append(primary, block, now, tz).status = "ok"

\* The chain builder after the delivery of the block.
AfterDelivery(block) ==
    new_block_received([chainbuilder EXCEPT !.sent = <<>>, !.raised = FALSE], block, now, tz)

\* C35: the delivery of a valid block is used for chain building although a
\* block of the same hash that differs in the height or in an unlock script was
\* delivered before: when the block extends the primary block chain, the chain
\* with the block is adopted.
C35_ValidBlockUsed ==
    \A block \in ValidBlocks :
        Fits(block) => head(AfterDelivery(block).primary_block_chain) = block

\* The delivery of a valid block whose hash is not in the block cache is used.
C35_UsedWhenNotCached ==
    \A block \in ValidBlocks :
        (Fits(block) /\ block.hash \notin DOMAIN chainbuilder.block_cache)
            => head(AfterDelivery(block).primary_block_chain) = block


-----------------------------------------------------------------------------
(* The threads around Protocol.peers: src/src/protocol.py.  The server     *)
(* thread runs IncomingHandler.handle, each connection has the thread of   *)
(* run() and then its reader and writer threads, and the event thread      *)
(* runs Protocol._main_thread.                                             *)

MaxConn == 2       \* the connections made
MaxRead == 1       \* the messages read from a connection

\* PeerConnection(peer_addr, proto, sock): the thread of run() is started.
\* pc is "run", "open" after the handshake, "failed" or "closed"; read counts
\* the messages read; handled is set when the event thread has handled the
\* "disconnected" event of the connection.
Connection(inbound) ==
    [inbound |-> inbound, is_connected |-> FALSE, pc |-> "run", read |-> 0,
     handled |-> FALSE]

\* Protocol.received(msg_type, None, peer, prio)
Protocol_received(self, msg_type, peer, prio) ==
    LET counter == self._callback_counter + 1
    IN  [self EXCEPT !._callback_counter = counter,
                     !._callback_queue = MapWith(@, counter, <<prio, msg_type, <<>>, peer>>)]

\* PeerConnection.close
PeerConnection_close(self, peer) ==
    IF ~self.conn[peer].is_connected THEN self
    ELSE Protocol_received([self EXCEPT !.conn[peer].is_connected = FALSE,
                                        !.conn[peer].pc = "closed"],
                           "disconnected", peer, 3)

\* list.remove(x): the first x leaves the list.
RECURSIVE list_remove(_, _)
list_remove(list, x) ==
    IF Head(list) = x THEN Tail(list) ELSE <<Head(list)>> \o list_remove(Tail(list), x)

\* Protocol.received_disconnected: [raised, self]; list.remove raises ValueError
\* when the connection is not in the list.
Protocol_received_disconnected(self, peer) ==
    IF self.conn[peer].is_connected THEN [raised |-> FALSE, self |-> self]
    ELSE IF peer \in Elements(self.peers)
    THEN [raised |-> FALSE, self |-> [self EXCEPT !.peers = list_remove(@, peer)]]
    ELSE [raised |-> TRUE, self |-> self]

\* One turn of the loop of Protocol._main_thread; fails tells whether the
\* handler of a message of the peer raises.
Protocol_main_thread(self, fails) ==
    LET counter == get(self._callback_queue)
        msg_type == self._callback_queue[counter][2]
        peer == self._callback_queue[counter][4]
        s0 == [self EXCEPT !._callback_queue = MapWithout(@, counter)]
        done == IF msg_type = "disconnected"
                THEN Bind({Protocol_received_disconnected(s0, peer)}, LAMBDA r :
                         [r EXCEPT !.self.conn[peer].handled = TRUE])
                ELSE [raised |-> fails, self |-> s0]
    IN  IF done.raised THEN PeerConnection_close(done.self, peer) ELSE done.self

ConnStep(self) ==
    /\ p2p' = self
    /\ UNCHANGED <<now, tz, vt_vars, ta_vars, chainbuilder, net_vars, miner, protocol, pow, rewards>>

\* IncomingHandler.handle: conn = PeerConnection(self.client_address, ...); the
\* connections are fewer than MAX_PEERS.
Accept ==
    /\ p2p.accepting = 0
    /\ Len(p2p.conn) < MaxConn
    /\ ConnStep([p2p EXCEPT !.conn = Append(@, Connection(TRUE)),
                            !.accepting = Len(p2p.conn) + 1])

\* IncomingHandler.handle: self.proto.peers.append(conn)
AcceptAppend ==
    /\ p2p.accepting # 0
    /\ ConnStep([p2p EXCEPT !.peers = Append(@, p2p.accepting), !.accepting = 0])

\* received_peer on the event thread: self.peers.append(PeerConnection(peer, self))
ConnectOut ==
    /\ Len(p2p.conn) < MaxConn
    /\ ConnStep([p2p EXCEPT !.conn = Append(@, Connection(FALSE)),
                            !.peers = Append(@, Len(p2p.conn) + 1)])

\* PeerConnection.run: the connection or the handshake fails with OSError.
RunFails(c) ==
    /\ p2p.conn[c].pc = "run"
    /\ ConnStep(Protocol_received([p2p EXCEPT !.conn[c].pc = "failed"], "disconnected", c, 1))

\* PeerConnection.run: the handshake succeeds.
RunConnects(c) ==
    /\ p2p.conn[c].pc = "run"
    /\ ConnStep([p2p EXCEPT !.conn[c].is_connected = TRUE, !.conn[c].pc = "open"])

\* reader_thread hands a message of the peer to Protocol.received.
ReaderReceives(c) ==
    /\ p2p.conn[c].pc = "open"
    /\ p2p.conn[c].read < MaxRead
    /\ ConnStep(Protocol_received([p2p EXCEPT !.conn[c].read = @ + 1], "message", c, 1))

\* reader_thread or writer_thread ends with an I/O error, a timeout or the end
\* of the stream: close_on_error calls close().
ThreadEnds(c) ==
    /\ p2p.conn[c].pc = "open"
    /\ ConnStep(PeerConnection_close(p2p, c))

\* The event thread handles the next event.
HandleEvent(fails) ==
    /\ DOMAIN p2p._callback_queue # {}
    /\ ConnStep(Protocol_main_thread(p2p, fails))

NextConn ==
    \/ Accept
    \/ AcceptAppend
    \/ ConnectOut
    \/ \E c \in DOMAIN p2p.conn : RunFails(c)
    \/ \E c \in DOMAIN p2p.conn : RunConnects(c)
    \/ \E c \in DOMAIN p2p.conn : ReaderReceives(c)
    \/ \E c \in DOMAIN p2p.conn : ThreadEnds(c)
    \/ \E fails \in BOOLEAN : HandleEvent(fails)

SpecConn == InitUTC /\ [][NextConn]_vars

Listed(c) == c \in Elements(p2p.peers)

\* C36: a connection, inbound or outbound, that was closed is not in
\* Protocol.peers once its `disconnected` event has been handled, and is not
\* added to it afterwards, under every interleaving of the server thread, the
\* threads of the connection and the event thread.
C36_ClosedNotListed ==
    \A c \in DOMAIN p2p.conn : p2p.conn[c].handled => ~Listed(c)

\* The same for the connections that the event thread itself has made.
C36_OutboundNotListed ==
    \A c \in DOMAIN p2p.conn :
        (p2p.conn[c].handled /\ ~p2p.conn[c].inbound) => ~Listed(c)

====
